---- MODULE Spec2Model ----
(***************************************************************************)
(* ATS Keyword Matcher (src/src/app.py): the keyword extractor, the        *)
(* scorer, the labeler and the /analyze/text handler.                      *)
(*                                                                         *)
(* Texts and keywords are TLA+ strings.  A score is an integer number of   *)
(* hundredths: 5000 is Python's 50.0 and 6667 is 66.67, the grid on which  *)
(* round(score, 2) puts every score.                                       *)
(*                                                                         *)
(* The program keeps no state between calls.  The model is a caller that   *)
(* is idle, calls one function with arguments drawn from bounded sets,     *)
(* holds the frame of that call (arguments, locals, returned value, lines  *)
(* written to stdout, the exception that left it) and drops it when the    *)
(* call returns.  The Presidio engines of src/src/privacy/guardian.py are  *)
(* module globals and stay.  memo is the caller's note of one earlier      *)
(* result of extract_keywords, kept to compare a later call with.          *)
(***************************************************************************)
EXTENDS Integers, Sequences, FiniteSets, TLC

VARIABLES pc, op, text, words, keywords, resume_keywords, jd_keywords,
          result, score, label, resume_text, job_description, response,
          printed, raised, upload, doc, masked, _analyzer, _anonymizer, memo,
          requests, error, calls, returned, pdf_path, posted

vars == <<pc, op, text, words, keywords, resume_keywords, jd_keywords,
          result, score, label, resume_text, job_description, response,
          printed, raised, upload, doc, masked, _analyzer, _anonymizer, memo,
          requests, error, calls, returned, pdf_path, posted>>

\* the module globals of src/privacy/guardian.py, which outlive a call
engines == <<_analyzer, _anonymizer>>

\* what a call outside app.py and the guardian leaves: the value it returned,
\* the file at the path it was given, the request it sent
tools == <<returned, pdf_path, posted>>

(***************************************************************************)
(* Bounds of the model.                                                    *)
(***************************************************************************)
\* longest text given to extract_keywords
MaxLen == 5
\* longest resume text and job description given to analyze_text
MaxReqLen == 2
\* number of keywords of KeywordPool the scorer's arguments are drawn from
NumKeywords == 6
\* largest score, in hundredths, given to get_score_label
MaxScoreArg == 10000

(***************************************************************************)
(* Characters.  "a", "s" and "A", "S" are the ASCII letters the bounded     *)
(* texts are made of (the phrases and requests further down use the whole  *)
(* alphabet), "3" a digit, "_" the underscore, " " whitespace, and "~"     *)
(* stands for                                                              *)
(* U+017F, the long s: a lower-case letter outside ASCII whose upper-case  *)
(* form is "S".  str.lower leaves it as it is, it is a word character of   *)
(* Python's re for str patterns, and [a-zA-Z] does not match it.           *)
(***************************************************************************)
Chars == {"a", "s", "A", "S", "3", "_", " ", "~"}

RECURSIVE Strings(_)
Strings(n) ==
    IF n = 0 THEN {""}
    ELSE LET S == Strings(n - 1)
         IN  S \cup {s \o c : s \in {x \in S : Len(x) = n - 1}, c \in Chars}

Texts == Strings(MaxLen)
ReqTexts == Strings(MaxReqLen)

KeywordPool == <<"python", "java", "docker", "kubernetes", "rust", "golang",
                 "aws", "ml", "ai">>
Vocabulary == {KeywordPool[i] : i \in 1..NumKeywords}

Range(s) == {s[i] : i \in 1..Len(s)}
At(s, i) == SubSeq(s, i, i)

\* number of words of PhraseWords the phrases are made of
NumPhraseWords == 10
PhraseWords == <<"AI", "ML", "Python", "java", "Docker", "kubernetes",
                 "AWS", "the", "Skills", "python3", "CI/CD", "PYTHON">>

\* one word, or two with a blank between them, and the texts of
\* src/tests/test_app.py
Phrases ==
    LET W == {PhraseWords[i] : i \in 1..NumPhraseWords}
    IN  W \cup {v \o " " \o w : v \in W, w \in W}
          \cup {"Python PYTHON python",
                "The quick brown fox jumps over the lazy dog"}

(***************************************************************************)
(* str.lower, str.strip and the character classes of the pattern           *)
(* r'\b[a-zA-Z]{2,}\b'.                                                    *)
(***************************************************************************)
AsciiUpper == "ABCDEFGHIJKLMNOPQRSTUVWXYZ"
AsciiLower == "abcdefghijklmnopqrstuvwxyz"
AsciiUpperSet == {At(AsciiUpper, i) : i \in 1..26}
AsciiLowerSet == {At(AsciiLower, i) : i \in 1..26}

\* the place of an ASCII letter in the alphabet, 1..26
LetterIndex(c) ==
    CHOOSE i \in 1..26 : At(AsciiUpper, i) = c \/ At(AsciiLower, i) = c

\* the lower-case form of each of A-Z
LowerOf ==
    [A |-> "a", B |-> "b", C |-> "c", D |-> "d", E |-> "e", F |-> "f", G |-> "g",
     H |-> "h", I |-> "i", J |-> "j", K |-> "k", L |-> "l", M |-> "m", N |-> "n",
     O |-> "o", P |-> "p", Q |-> "q", R |-> "r", S |-> "s", T |-> "t", U |-> "u",
     V |-> "v", W |-> "w", X |-> "x", Y |-> "y", Z |-> "z"]

\* str.lower on one character: A-Z go to a-z, every other character of the
\* model (the long s included) stays
Lower(c) == IF c \in AsciiUpperSet THEN LowerOf[c] ELSE c

\* the length up to which a text is walked one character after the other;
\* a longer one is walked in two halves, so that it does not nest deeply
ChunkLen == 16

\* str.lower on a text, character by character
RECURSIVE LowerText(_)
LowerText(s) ==
    IF s = "" THEN ""
    ELSE IF Len(s) <= ChunkLen THEN Lower(Head(s)) \o LowerText(Tail(s))
    ELSE LET h == Len(s) \div 2
         IN  LowerText(SubSeq(s, 1, h)) \o LowerText(SubSeq(s, h + 1, Len(s)))

\* [a-zA-Z]
IsAsciiAlpha(c) == c \in AsciiLowerSet \/ c \in AsciiUpperSet
\* \w of a str pattern: letters of any script, digits and the underscore
IsWordChar(c) == IsAsciiAlpha(c) \/ c \in {"3", "_", "~"}
\* str.isspace
IsSpace(c) == c \in {" ", "\n"}

\* \b at offset i (between s[i] and s[i+1]; the ends of s count as non-word)
WordBoundary(s, i) ==
    LET before == i >= 1 /\ IsWordChar(At(s, i))
        after  == i < Len(s) /\ IsWordChar(At(s, i + 1))
    IN  before # after

\* the least number of letters the pattern's {2,} asks for
MinRun == 2

\* The end offset of the match of \b[a-zA-Z]{minrun,}\b that starts at offset
\* pos, 0 when there is none.  The quantifier is greedy and backtracks: the
\* longest run of letters after which the closing \b holds.  bounded = FALSE
\* is the pattern without its two \b.
MatchEnd(s, pos, minrun, bounded) ==
    LET ends == {e \in (pos + minrun)..Len(s) :
                    /\ \A k \in (pos + 1)..e : IsAsciiAlpha(At(s, k))
                    /\ bounded => WordBoundary(s, e)}
    IN  IF (bounded => WordBoundary(s, pos)) /\ ends # {}
        THEN CHOOSE e \in ends : \A f \in ends : f <= e
        ELSE 0

\* re.findall on a text of at most ChunkLen characters: the non-overlapping
\* matches, scanning from the left
RECURSIVE scan_short(_, _, _, _)
scan_short(s, pos, minrun, bounded) ==
    IF pos >= Len(s) THEN <<>>
    ELSE LET e == MatchEnd(s, pos, minrun, bounded)
         IN  IF e = 0 THEN scan_short(s, pos + 1, minrun, bounded)
             ELSE <<SubSeq(s, pos + 1, e)>> \o scan_short(s, e, minrun, bounded)

\* The same scan on a longer text, over the start offsets lo..hi-1 in
\* ascending order, when the scan stands at offset pos: offsets before pos lie
\* in a match already taken and are passed over, a match found moves pos to
\* its end.  The matches found and where the scan stands afterwards.  The
\* range is walked in two halves.
RECURSIVE scan(_, _, _, _, _, _)
scan(s, pos, lo, hi, minrun, bounded) ==
    IF lo >= hi THEN [found |-> <<>>, pos |-> pos]
    ELSE IF hi = lo + 1
    THEN LET e == IF lo < pos THEN 0 ELSE MatchEnd(s, lo, minrun, bounded)
         IN  IF e = 0 THEN [found |-> <<>>, pos |-> pos]
             ELSE [found |-> <<SubSeq(s, lo + 1, e)>>, pos |-> e]
    ELSE LET mid   == (lo + hi) \div 2
             left  == scan(s, pos, lo, mid, minrun, bounded)
             right == scan(s, left.pos, mid, hi, minrun, bounded)
         IN  [found |-> left.found \o right.found, pos |-> right.pos]

\* re.findall: the non-overlapping matches, scanning from the left
re_findall(s, pos, minrun, bounded) ==
    IF Len(s) <= ChunkLen THEN scan_short(s, pos, minrun, bounded)
    ELSE scan(s, pos, pos, Len(s), minrun, bounded).found

stop_words == {
    "a", "an", "the", "i", "me", "my", "myself", "we", "our", "ours",
    "ourselves", "you", "your", "yours", "yourself", "yourselves",
    "he", "him", "his", "himself", "she", "her", "hers", "herself",
    "it", "its", "itself", "they", "them", "their", "theirs", "themselves",
    "what", "which", "who", "whom", "this", "that", "these", "those",
    "am", "is", "are", "was", "were", "be", "been", "being",
    "have", "has", "had", "having", "do", "does", "did", "doing",
    "and", "but", "if", "or", "because", "as", "until", "while",
    "of", "at", "by", "for", "with", "about", "against", "between",
    "into", "through", "during", "before", "after", "above", "below",
    "to", "from", "up", "down", "in", "out", "on", "off", "over",
    "under", "again", "further", "then", "once", "here", "there",
    "when", "where", "why", "how", "all", "each", "few", "more",
    "most", "other", "some", "such", "no", "nor", "not", "only",
    "own", "same", "so", "than", "too", "very", "just", "can",
    "will", "don", "should", "now", "any", "both", "every",
    "get", "got", "getting", "make", "made", "making", "go", "going",
    "went", "gone", "come", "came", "coming", "take", "took", "taken",
    "see", "saw", "seen", "know", "knew", "known", "think", "thought",
    "want", "wanted", "give", "gave", "given", "tell", "told",
    "ask", "asked", "seem", "seemed", "leave", "left", "put", "keep",
    "kept", "let", "begin", "began", "show", "showed", "shown",
    "hear", "heard", "move", "moved", "like", "liked", "live", "lived",
    "believe", "believed", "hold", "held", "bring", "brought",
    "happen", "happened", "must", "shall", "would", "could", "might", "may",
    "good", "great", "best", "better", "new", "first", "last", "long",
    "little", "old", "right", "big", "high", "different", "small", "large",
    "next", "early", "young", "important", "public", "bad", "able", "free",
    "sure", "clear", "full", "special", "easy", "ready", "possible", "open",
    "late", "hard", "real", "whole", "least", "short", "certain", "low",
    "likely", "true", "available", "necessary", "several", "recent",
    "current", "particular", "fine", "simple", "strong", "various",
    "additional", "major", "local", "general", "fast", "paced", "highly",
    "exceptional", "brilliant", "solid", "appropriate", "desirable",
    "time", "year", "years", "people", "way", "day", "days", "man", "men",
    "woman", "women", "child", "children", "world", "life", "hand", "hands",
    "part", "parts", "place", "places", "case", "cases", "week", "weeks",
    "point", "points", "thing", "things", "home", "fact", "facts", "month",
    "months", "lot", "book", "eye", "eyes", "job", "word", "words",
    "side", "sides", "kind", "head", "house", "friend", "friends", "hour",
    "hours", "line", "lines", "end", "member", "members", "area", "areas",
    "money", "story", "stories", "state", "city", "name", "family", "room",
    "country", "question", "questions", "idea", "ideas", "number", "numbers",
    "position", "candidate", "candidates", "role", "responsibilities",
    "requirements", "qualifications", "opportunity", "opportunities",
    "looking", "seeking", "join", "joining", "offer", "offers", "offering",
    "apply", "applying", "resume", "cover", "letter", "salary", "benefits",
    "bonus", "vacation", "insurance", "retirement", "flexible", "remote",
    "hybrid", "onsite", "office", "location", "located", "based", "working",
    "work", "environment", "culture", "employer", "employment", "employee",
    "employees", "staff", "hire", "hiring", "hired", "start", "starting",
    "date", "deadline", "submit", "submitted", "please", "thank", "thanks",
    "note", "notes", "email", "phone", "contact", "website", "click", "link",
    "info", "information", "details", "description", "overview", "summary",
    "include", "includes", "including", "require", "requires", "required",
    "prefer", "prefers", "preferred", "plus", "ideal", "ideally",
    "minimum", "maximum", "need", "needs", "needed", "expect", "expected",
    "breakfast", "lunch", "dinner", "snacks", "food", "meals", "drinks",
    "coffee", "tea", "cafeteria", "kitchen", "kitchens", "gym", "fitness",
    "wellness", "parking", "commute", "cab", "cabs", "transport", "shuttle",
    "cubicle", "cubicles", "desk", "desks", "jeans", "casual", "dress",
    "attire", "friday", "fridays", "rewards", "perks", "premium",
    "facility", "facilities", "amenities", "lounge", "recreation",
    "events", "party", "parties", "celebration", "outing", "trip", "trips",
    "india", "usa", "america", "europe", "asia", "africa", "australia",
    "canada", "china", "japan", "germany", "france", "singapore", "dubai",
    "london", "paris", "tokyo", "sydney", "mumbai", "delhi", "bangalore",
    "hyderabad", "chennai", "pune", "kolkata", "gurgaon", "noida",
    "york", "san", "francisco", "seattle", "boston", "chicago", "austin",
    "denver", "atlanta", "miami", "dallas", "houston", "phoenix",
    "street", "wall", "tower", "towers", "building", "buildings", "floor",
    "floors", "campus", "park", "center", "centre", "plaza", "avenue",
    "road", "boulevard", "lane", "drive", "llc", "inc", "corp", "ltd", "pvt",
    "daily", "weekly", "monthly", "annually", "yearly", "hourly",
    "per", "percent", "percentage", "approximately", "multiple",
    "also", "well", "however", "therefore", "thus", "hence", "although",
    "though", "still", "yet", "already", "even", "ever", "never", "always",
    "often", "sometimes", "usually", "generally", "typically", "especially",
    "specifically", "particularly", "mainly", "mostly", "primarily",
    "largely", "simply", "directly", "currently", "recently", "alongside",
    "ability", "abilities", "skill", "skills", "knowledge", "proficiency",
    "proficient", "familiar", "familiarity", "understanding", "background",
    "equivalent", "related", "relevant", "field", "fields",
    "immigration", "ethnicity", "race", "racial", "gender", "sex", "sexual",
    "orientation", "identity", "marital", "status", "religion", "religious",
    "ancestry", "national", "origin", "nationality", "citizenship", "citizen",
    "veteran", "veterans", "military", "disability", "disabilities",
    "pregnancy", "genetic", "genetics", "age", "aged", "protected",
    "discrimination", "affiliation", "political", "ordinances", "laws", "law",
    "affirmative", "action", "eeo", "eeoc", "expression", "creed", "color",
    "values", "value", "mission", "vision", "purpose", "integrity",
    "honesty", "respect", "accountability", "transparency", "excellence",
    "passion", "passionate", "passions", "excitement", "excited", "exciting",
    "thrive", "thriving", "empower", "empowered", "inspire", "inspired",
    "innovative", "innovate", "creativity", "creative", "curiosity", "curious",
    "mindset", "attitude", "positive", "fun", "enjoy", "journey",
    "growth", "grow", "talent", "talented", "potential", "aspirations",
    "achieve", "achieving", "succeed", "success", "successful", "winning",
    "reward", "rewarding", "meaningful", "impact", "impactful", "difference",
    "community", "belong", "belonging", "together", "shared", "care", "caring",
    "support", "supporting", "trust", "everyone", "everybody", "anyone",
    "someone", "person", "persons", "individual", "individuals", "human",
    "internship", "internships", "intern", "interns", "program", "programs",
    "semester", "semesters", "term", "terms", "rotation", "rotational",
    "cohort", "batch", "completion", "completing", "complete", "ongoing",
    "duration", "period", "temporary", "permanent", "apprentice", "trainee",
    "mentee", "mentor", "mentoring", "mentorship", "guidance", "guide",
    "coach", "coaching", "buddy",
    "provide", "provides", "providing", "enable", "enables", "enabling",
    "allow", "allows", "allowing", "help", "helps", "helping", "assist",
    "assists", "assisting", "assistance", "ensure", "ensures", "ensuring",
    "demonstrate", "demonstrates", "leverage", "leverages", "leveraging",
    "utilize", "utilizes", "utilizing", "explore", "explores", "exploring",
    "pursue", "pursues", "pursuing", "seek", "seeks", "seeking",
    "adopt", "adopts", "adopting", "embrace", "embraces", "embracing",
    "receive", "receives", "receiving", "accept", "accepts", "accepting",
    "consider", "considers", "considering", "consideration", "read", "reads",
    "improve", "improves", "improving", "advance", "advances", "advancing",
    "proactively", "proactive", "quickly", "rapidly", "efficiently",
    "effectively", "collaborate", "collaborates", "collaborating",
    "cooperate", "cooperates", "cooperative", "coordinate", "coordinates",
    "learns", "learn", "learning", "learned",
    "customers", "customer", "clients", "client", "users", "user",
    "products", "product", "services", "service", "solutions", "solution",
    "projects", "project", "initiatives", "initiative", "efforts", "effort",
    "goals", "goal", "objectives", "objective", "targets", "target",
    "results", "result", "outcomes", "outcome", "deliverables", "deliverable",
    "operations", "operation", "practices", "practice", "methods", "method",
    "approaches", "approach", "strategies", "strategy", "plans", "plan",
    "developments", "development", "resources", "resource", "materials",
    "documents", "document", "principles", "principle", "fundamentals",
    "concepts", "concept", "standards", "standard", "guidelines", "guideline",
    "policies", "policy", "procedures", "procedure", "corner", "corners",
    "planet", "globe", "worldwide", "internal", "external", "chance",
    "ahead", "forward", "future", "career", "careers", "path", "paths",
    "teammates", "teammate", "colleagues", "colleague", "peers", "peer",
    "managers", "manager", "supervisors", "supervisor", "directors",
    "executives", "executive", "leaders", "applicants", "applicant",
    "qualified", "qualify", "eligible", "eligibility", "availability",
    "accommodate", "accommodation", "accommodations", "reasonable",
    "applicable", "physical", "mental", "emotional", "condition", "conditions",
    "filled", "fill", "remaining", "remain", "due", "regard", "regards",
    "driving", "driven", "incorporates", "incorporate", "realize", "realizes",
    "thousands", "hundreds", "millions", "billions",
    "microsoft", "google", "amazon", "apple", "meta", "facebook", "netflix",
    "uber", "lyft", "airbnb", "salesforce", "oracle", "ibm", "intel",
    "nvidia", "amd", "cisco", "vmware", "adobe", "spotify"
}

(***************************************************************************)
(* extract_keywords                                                        *)
(***************************************************************************)
\* line 233 without text.lower()
extract_words_NoLower(t) == re_findall(t, 0, MinRun, TRUE)

\* line 233 with the pattern [a-zA-Z]{2,}, its two \b left out
extract_words_NoBoundary(t) == re_findall(LowerText(t), 0, MinRun, FALSE)

\* line 233 with the pattern \b[a-zA-Z]{1,}\b
extract_words_Min1(t) == re_findall(LowerText(t), 0, 1, TRUE)

\* words = re.findall(r'\b[a-zA-Z]{2,}\b', text.lower())
extract_words(t) == re_findall(LowerText(t), 0, MinRun, TRUE)

\* line 236 with a stop-word set that is kept between calls and takes up
\* the keywords already returned
filter_stop_words_Growing(ws) ==
    {w \in Range(ws) : w \notin stop_words /\ w \notin memo.keywords}

\* line 236 dropping words of fewer than three letters as well
filter_stop_words_NoShort(ws) ==
    {w \in Range(ws) : w \notin stop_words /\ Len(w) >= 3}

\* line 236 with "in" for "not in"
filter_stop_words_Inverted(ws) == {w \in Range(ws) : w \in stop_words}

\* keywords = {word for word in words if word not in stop_words}
filter_stop_words(ws) == {w \in Range(ws) : w \notin stop_words}

extract_keywords(t) == filter_stop_words(extract_words(t))

(***************************************************************************)
(* calculate_ats_score.  The returned dict is the record's score, matched  *)
(* and missing; raised names the exception that left the function          *)
(* instead, "none" when it returned.                                       *)
(***************************************************************************)
NoResult == [raised |-> "none", score |-> 0, matched |-> {}, missing |-> {}]

\* round(x, 2) with truncation for rounding
round2_Truncate(num, den) == (10000 * num) \div den

\* round(100 * num / den, 2) in hundredths: the nearest hundredth, a tie to
\* the even one.  100 * num / den lies halfway between two hundredths only
\* when den is a multiple of 32, which no keyword set of the model reaches.
round2(num, den) ==
    LET q == (10000 * num) \div den
        r == (10000 * num) % den
    IN  IF 2 * r > den \/ (2 * r = den /\ q % 2 = 1) THEN q + 1 ELSE q

\* len(matched) / len(jd_keywords) * 100, rounded: a division by zero raises
Scored(matched, missing, num, den) ==
    IF den = 0
    THEN [raised |-> "ZeroDivisionError", score |-> 0,
          matched |-> {}, missing |-> {}]
    ELSE [raised |-> "none", score |-> round2(num, den),
          matched |-> matched, missing |-> missing]

\* missing = resume_keywords - jd_keywords
calculate_ats_score_SwappedMissing(resume_kw, jd_kw) ==
    IF jd_kw = {} THEN NoResult
    ELSE LET matched == resume_kw \cap jd_kw
             missing == resume_kw \ jd_kw
         IN  Scored(matched, missing, Cardinality(matched), Cardinality(jd_kw))

\* score = (len(resume_keywords) / len(jd_keywords)) * 100
calculate_ats_score_CountsResume(resume_kw, jd_kw) ==
    IF jd_kw = {} THEN NoResult
    ELSE LET matched == resume_kw \cap jd_kw
             missing == jd_kw \ resume_kw
         IN  Scored(matched, missing, Cardinality(resume_kw), Cardinality(jd_kw))

\* without the "if not jd_keywords" branch of lines 243-248
calculate_ats_score_NoGuard(resume_kw, jd_kw) ==
    LET matched == resume_kw \cap jd_kw
        missing == jd_kw \ resume_kw
    IN  Scored(matched, missing, Cardinality(matched), Cardinality(jd_kw))

\* score = (len(matched) / len(resume_keywords)) * 100
calculate_ats_score_OverResume(resume_kw, jd_kw) ==
    IF jd_kw = {} THEN NoResult
    ELSE LET matched == resume_kw \cap jd_kw
             missing == jd_kw \ resume_kw
         IN  Scored(matched, missing, Cardinality(matched), Cardinality(resume_kw))

calculate_ats_score(resume_kw, jd_kw) ==
    IF jd_kw = {} THEN NoResult
    ELSE LET matched == resume_kw \cap jd_kw
             missing == jd_kw \ resume_kw
         IN  Scored(matched, missing, Cardinality(matched), Cardinality(jd_kw))

\* print(jd_keywords), line 252: the lines a call writes to stdout
calculate_ats_score_prints(resume_kw, jd_kw) ==
    IF jd_kw = {} THEN <<>> ELSE <<jd_kw>>

(***************************************************************************)
(* get_score_label                                                         *)
(***************************************************************************)
\* every ">=" written ">"
get_score_label_Strict(sc) ==
    IF sc > 8000 THEN "Excellent Match"
    ELSE IF sc > 6000 THEN "Good Match"
    ELSE IF sc > 4000 THEN "Fair Match"
    ELSE IF sc > 2000 THEN "Needs Improvement"
    ELSE "Poor Match"

get_score_label(sc) ==
    IF sc >= 8000 THEN "Excellent Match"
    ELSE IF sc >= 6000 THEN "Good Match"
    ELSE IF sc >= 4000 THEN "Fair Match"
    ELSE IF sc >= 2000 THEN "Needs Improvement"
    ELSE "Poor Match"

\* str.strip without the stripping: the text as it came
strip_Nothing(s) == s

(***************************************************************************)
(* analyze_text, the handler of POST /analyze/text                         *)
(***************************************************************************)
\* str.strip(): leading and trailing whitespace removed
RECURSIVE lstrip(_)
lstrip(s) == IF s # "" /\ IsSpace(Head(s)) THEN lstrip(Tail(s)) ELSE s

RECURSIVE rstrip(_)
rstrip(s) ==
    IF s # "" /\ IsSpace(At(s, Len(s)))
    THEN rstrip(SubSeq(s, 1, Len(s) - 1))
    ELSE s

strip(s) == rstrip(lstrip(s))

\* ord(c): Python orders str values by code point
CodePoint(c) ==
    CASE c = "\n" -> 10
      [] c = " " -> 32
      [] c = "." -> 46
      [] c = "3" -> 51
      [] c \in AsciiUpperSet -> 64 + LetterIndex(c)
      [] c = "_" -> 95
      [] c \in AsciiLowerSet -> 96 + LetterIndex(c)
      [] c = "~" -> 383

\* s < t for two str values
RECURSIVE StrLess(_, _)
StrLess(s, t) ==
    IF t = "" THEN FALSE
    ELSE IF s = "" THEN TRUE
    ELSE IF Head(s) = Head(t) THEN StrLess(Tail(s), Tail(t))
    ELSE CodePoint(Head(s)) < CodePoint(Head(t))

\* sorted(list(S)): the elements below one of them, that one, the others
RECURSIVE sorted(_)
sorted(S) ==
    IF S = {} THEN <<>>
    ELSE LET p == CHOOSE x \in S : TRUE
         IN  sorted({y \in S : StrLess(y, p)}) \o <<p>>
                \o sorted({y \in S : StrLess(p, y)})

\* the list slices [:50] and [:30] of lines 363 and 364
MatchedCap == 50
MissingCap == 30

\* the slice [-n:] for [:n]
Take_Last(seq, n) ==
    SubSeq(seq, IF Len(seq) < n THEN 1 ELSE Len(seq) - n + 1, Len(seq))

\* seq[:n]
Take(seq, n) == SubSeq(seq, 1, IF Len(seq) < n THEN Len(seq) ELSE n)

NoResponse == [status |-> 0]
NoUpload == [filename |-> "", pdf |-> [broken |-> "no", pages |-> <<>>]]
\* requests in flight at once
NumRequests == 2

\* a request that has not arrived: kind is "text" for POST /analyze/text and
\* "resume" for POST /analyze, resume the text or the upload, the other
\* fields the handler's locals, overlapped whether a step of this request ran
\* while another request was inside its handler
NoRequest ==
    [pc |-> "none", kind |-> "none", resume |-> "", jd |-> "",
     resume_text |-> "", resume_keywords |-> {}, jd_keywords |-> {},
     result |-> NoResult, response |-> NoResponse, overlapped |-> FALSE]

\* no exception raised
NoError == [type |-> "none", message |-> ""]
\* no file was named, nothing was sent
NoFile == [exists |-> FALSE, opens |-> FALSE, unreadable |-> 0, pages |-> <<>>]
NoPost == [to |-> "none"]

NoMemo == [set |-> FALSE, text |-> "", keywords |-> {}, between |-> FALSE]

\* the AnalysisResult with its totals taken from the lists after the cut
AnalysisResultOf_TotalsAfterCut(res, jd_kw) ==
    IF res.raised # "none"
    THEN [status |-> 500, detail |-> res.raised]
    ELSE [status           |-> 200,
          score            |-> res.score,
          score_label      |-> get_score_label(res.score),
          matched_keywords |-> Take(sorted(res.matched), MatchedCap),
          missing_keywords |-> Take(sorted(res.missing), MissingCap),
          total_jd_keywords |-> Cardinality(jd_kw),
          total_matched    |-> Len(Take(sorted(res.matched), MatchedCap))]

\* lines 360-367 and 321-328, which are the same: the AnalysisResult built
\* from the scorer's result and the JD keyword set.  500 when an exception
\* other than HTTPException left the scorer.
AnalysisResultOf(res, jd_kw) ==
    IF res.raised # "none"
    THEN [status |-> 500, detail |-> res.raised]
    ELSE [status           |-> 200,
          score            |-> res.score,
          score_label      |-> get_score_label(res.score),
          matched_keywords |-> Take(sorted(res.matched), MatchedCap),
          missing_keywords |-> Take(sorted(res.missing), MissingCap),
          total_jd_keywords |-> Cardinality(jd_kw),
          total_matched    |-> Cardinality(res.matched)]

\* lines 353-367 of analyze_text and 314-328 of analyze_resume, which are the
\* same: both keyword sets, the score, the AnalysisResult
AnalysisResult(resume, jd) ==
    AnalysisResultOf(calculate_ats_score(extract_keywords(resume),
                                         extract_keywords(jd)),
                     extract_keywords(jd))

\* The HTTP response: 400 with the detail of the HTTPException raised, 200 with
\* the AnalysisResult.
analyze_text(resume, jd) ==
    IF strip(resume) = ""
    THEN [status |-> 400, detail |-> "Resume text cannot be empty"]
    ELSE IF strip(jd) = ""
    THEN [status |-> 400, detail |-> "Job description cannot be empty"]
    ELSE AnalysisResult(resume, jd)

\* sep.join(parts)
RECURSIVE join(_, _)
join(sep, parts) ==
    IF Len(parts) = 0 THEN ""
    ELSE IF Len(parts) = 1 THEN parts[1]
    ELSE LET h == Len(parts) \div 2
         IN  join(sep, SubSeq(parts, 1, h)) \o sep
                \o join(sep, SubSeq(parts, h + 1, Len(parts)))

\* s.endswith(suffix)
endswith(s, suffix) ==
    /\ Len(s) >= Len(suffix)
    /\ SubSeq(s, Len(s) - Len(suffix) + 1, Len(s)) = suffix

\* extract_text_from_pdf(pdf_bytes).  pdf.broken is where PyMuPDF fails on
\* these bytes: "open" in fitz.open, "page" in page.get_text(), "no" nowhere.
\* doc is the document afterwards: "none" (never opened), "open" or "closed".
extract_text_from_pdf(pdf) ==
    CASE pdf.broken = "open" ->
            [raised |-> "ValueError", text |-> "", doc |-> "none",
             message |-> "Failed to extract PDF text: open"]
      [] pdf.broken = "page" ->
            [raised |-> "ValueError", text |-> "", doc |-> "open",
             message |-> "Failed to extract PDF text: page"]
      [] OTHER ->
            [raised |-> "none", text |-> join("\n", pdf.pages),
             doc |-> "closed", message |-> ""]

\* analyze_resume(resume, job_description): the HTTP response, the text taken
\* from the PDF, the document afterwards
analyze_resume(resume, jd) ==
    IF ~endswith(LowerText(resume.filename), ".pdf")
    THEN [response |-> [status |-> 400,
                        detail |-> "Only PDF files are supported"],
          resume_text |-> "", doc |-> "none"]
    ELSE LET pdf == extract_text_from_pdf(resume.pdf) IN
         IF pdf.raised = "ValueError"
         THEN [response |-> [status |-> 400, detail |-> pdf.message],
               resume_text |-> "", doc |-> pdf.doc]
         ELSE [response |->
                  IF strip(pdf.text) = ""
                  THEN [status |-> 400,
                        detail |-> "Could not extract text from PDF"]
                  ELSE IF strip(jd) = ""
                  THEN [status |-> 400,
                        detail |-> "Job description cannot be empty"]
                  ELSE AnalysisResult(pdf.text, jd),
               resume_text |-> pdf.text, doc |-> pdf.doc]

\* what leaves a handler whose HTTP response is resp: the HTTPException it
\* raised for a 400, the exception that escaped it for a 500
raised_by(resp) ==
    CASE resp.status = 200 -> "none"
      [] resp.status = 400 -> "HTTPException"
      [] OTHER             -> resp.detail

\* whether the handler gets past its two validations (lines 341-351)
analyze_text_validates(resume, jd) == strip(resume) # "" /\ strip(jd) # ""

(***************************************************************************)
(* mask_pii of src/src/privacy/guardian.py and the handler sanitize_input  *)
(* of src/src/api/main.py.  What the Presidio library does in a call is    *)
(* not the program's to decide: o holds, for each library call, whether it *)
(* returns ("ok") or which exception it raises, and what the analyzer      *)
(* detects.                                                                *)
(***************************************************************************)
None == "None"

Outcomes == {"ok", "ValueError", "OSError"}

\* SUPPORTED_ENTITIES
SUPPORTED_ENTITIES == {"PERSON", "EMAIL_ADDRESS", "PHONE_NUMBER"}

\* OPERATOR_CONFIG: the new_value of each entity type
OPERATOR_CONFIG(entity) ==
    CASE entity = "PERSON"        -> "<CANDIDATE_NAME>"
      [] entity = "EMAIL_ADDRESS" -> "<EMAIL_ADDRESS>"
      [] entity = "PHONE_NUMBER"  -> "<PHONE_NUMBER>"

\* s.split(" ")
RECURSIVE split(_)
split(s) ==
    LET at == {k \in 1..Len(s) : At(s, k) = " "}
    IN  IF at = {} THEN <<s>>
        ELSE LET k == CHOOSE k \in at : \A j \in at : k <= j
             IN  <<SubSeq(s, 1, k - 1)>> \o split(SubSeq(s, k + 1, Len(s)))

\* what analyzer.analyze may return for a text: for each word, the entity
\* type it was taken for, "" for none
Detections(t) ==
    IF t = None THEN {<<>>}
    ELSE LET ws    == split(t)
             spans == {i \in 1..Len(ws) : ws[i] # ""}
         IN  {[i \in 1..Len(ws) |-> IF i \in spans THEN f[i] ELSE ""] :
                 f \in [spans -> SUPPORTED_ENTITIES \cup {""}]}

\* anonymizer.anonymize: each detected span replaced by its token
anonymize(t, detected) ==
    join(" ", [i \in 1..Len(split(t)) |->
                 IF detected[i] = "" THEN split(t)[i]
                 ELSE OPERATOR_CONFIG(detected[i])])

Oracles(t) ==
    [analyzer_ctor : Outcomes, anonymizer_ctor : Outcomes,
     analyze : Outcomes, anonymize : Outcomes, detected : Detections(t)]

\* str(e) of an exception the library raised in call
LibraryMessage(call) == call \o " failed"

\* _get_engines(): the engines afterwards, the library calls made, the
\* exception that left it
_get_engines(analyzer, anonymizer, o) ==
    IF analyzer # "None"
    THEN [raised |-> "none", analyzer |-> analyzer, anonymizer |-> anonymizer,
          calls |-> <<>>]
    ELSE IF o.analyzer_ctor # "ok"
    THEN [raised |-> o.analyzer_ctor, analyzer |-> "None",
          anonymizer |-> anonymizer, calls |-> <<"AnalyzerEngine">>]
    ELSE IF o.anonymizer_ctor # "ok"
    THEN [raised |-> o.anonymizer_ctor, analyzer |-> "AnalyzerEngine",
          anonymizer |-> anonymizer,
          calls |-> <<"AnalyzerEngine", "AnonymizerEngine">>]
    ELSE [raised |-> "none", analyzer |-> "AnalyzerEngine",
          anonymizer |-> "AnonymizerEngine",
          calls |-> <<"AnalyzerEngine", "AnonymizerEngine">>]

\* mask_pii left by an exception of type and message
Raise(type, message, engs, made) ==
    [raised |-> type, message |-> message, masked |-> "",
     analyzer |-> engs.analyzer, anonymizer |-> engs.anonymizer,
     calls |-> made]

\* mask_pii with the test of line 50 after line 53
mask_pii_EnginesFirst(t, analyzer, anonymizer, o) ==
    LET e == _get_engines(analyzer, anonymizer, o) IN
    IF e.raised # "none"
    THEN Raise(e.raised, LibraryMessage(e.calls[Len(e.calls)]), e, e.calls)
    ELSE IF t = None \/ t = "" \/ strip(t) = ""
    THEN Raise("ValueError", "Input text cannot be empty", e, e.calls)
    ELSE [raised |-> "none", message |-> "", masked |-> anonymize(t, o.detected),
          analyzer |-> e.analyzer, anonymizer |-> e.anonymizer,
          calls |-> e.calls \o <<"analyze", "anonymize">>]

\* mask_pii(text): the masked text or the exception, the engines afterwards,
\* the library calls made
mask_pii(t, analyzer, anonymizer, o) ==
    IF t = None \/ t = "" \/ strip(t) = ""
    THEN Raise("ValueError", "Input text cannot be empty",
               [analyzer |-> analyzer, anonymizer |-> anonymizer], <<>>)
    ELSE LET e == _get_engines(analyzer, anonymizer, o) IN
         IF e.raised # "none"
         THEN Raise(e.raised, LibraryMessage(e.calls[Len(e.calls)]), e, e.calls)
         ELSE IF o.analyze # "ok"
         THEN Raise(o.analyze, LibraryMessage("analyze"), e,
                    e.calls \o <<"analyze">>)
         ELSE IF e.anonymizer = "None"
         THEN Raise("AttributeError",
                    "'NoneType' object has no attribute 'anonymize'", e,
                    e.calls \o <<"analyze">>)
         ELSE IF o.anonymize # "ok"
         THEN Raise(o.anonymize, LibraryMessage("anonymize"), e,
                    e.calls \o <<"analyze", "anonymize">>)
         ELSE [raised |-> "none", message |-> "",
               masked |-> anonymize(t, o.detected),
               analyzer |-> e.analyzer, anonymizer |-> e.anonymizer,
               calls |-> e.calls \o <<"analyze", "anonymize">>]

\* min_length of SanitizeRequest.resume_text
MinLength == 10

\* hashlib.sha256(text.encode()).hexdigest(): the digest of these bytes
sha256_hexdigest(t) == "sha256(" \o t \o ")"

\* sanitize_input answering 500 whatever was raised
sanitize_input_All500(t, m) ==
    IF m.raised = "none"
    THEN [status |-> 200,
          body |-> [session_id |-> sha256_hexdigest(t),
                    sanitized_content |-> m.masked,
                    status |-> "PII_MASKED_SUCCESSFULLY"]]
    ELSE [status |-> 500, detail |-> "Internal server error during sanitization"]

\* sanitize_input(request) where mask_pii gave m: the HTTP response
sanitize_input(t, m) ==
    IF m.raised = "none"
    THEN [status |-> 200,
          body |-> [session_id |-> sha256_hexdigest(t),
                    sanitized_content |-> m.masked,
                    status |-> "PII_MASKED_SUCCESSFULLY"]]
    ELSE IF m.raised = "ValueError"
    THEN [status |-> 400, detail |-> m.message]
    ELSE [status |-> 500, detail |-> "Internal server error during sanitization"]

\* texts given to mask_pii, and resume_text of requests to /optimize/sanitize
GuardianTexts ==
    {None, "", " ", "  ", "Ann", "Ann a@b.c", "          ", "Ann Lee 555",
     "Ann a@b.c 555"}
SanitizeTexts == GuardianTexts \ {None}

(***************************************************************************)
(* ResumeOptimizer.optimize_bullet_point of src/src/intelligence/          *)
(* optimizer.py.  What ollama.chat does is not the program's to decide: o  *)
(* holds the exception it raises ("none" when it returns) and the message  *)
(* content of the response it returns.                                     *)
(***************************************************************************)
\* ResumeOptimizer.DEFAULT_MODEL
DEFAULT_MODEL == "llama3:8b"

\* ", ".join(keywords) if keywords else "None specified"
keywords_str(kws) == IF kws = <<>> THEN "None specified" ELSE join(", ", kws)

\* the f-string of lines 72-85
prompt(bullet, jd_context, kws) ==
    "Role: Expert Executive Resume Writer\n"
    \o "Task: Rewrite the following bullet point to better align with the job description.\n"
    \o "Target Keywords: " \o keywords_str(kws) \o "\n"
    \o "Job Context: " \o jd_context \o "\n"
    \o "Original Bullet: " \o bullet \o "\n"
    \o "\n"
    \o "Instructions:\n"
    \o "- Maintain factual accuracy - do not fabricate metrics or achievements\n"
    \o "- Focus on quantifiable impact and measurable outcomes\n"
    \o "- Incorporate target keywords naturally where appropriate\n"
    \o "- Use strong action verbs\n"
    \o "- Keep the bullet concise (one to two lines)\n"
    \o "\n"
    \o "Rewritten Bullet:"

\* what ollama.chat may raise: ResponseError when the server answers with an
\* error status, ConnectionError when it cannot be reached, another
\* exception otherwise (a timeout)
ChatRaises == {"none", "ResponseError", "ConnectionError", "ReadTimeout"}
ChatContents == {"", " ", "ss", " ss ", "Led a team\n"}
ChatOracles == [raised : ChatRaises, content : ChatContents]

\* optimize_bullet_point with the two except clauses in the other order
optimize_bullet_point_ExceptOrder(model_name, bullet, jd_context, kws, o) ==
    IF strip(bullet) = ""
    THEN [raised |-> "ValueError", message |-> "Bullet point cannot be empty",
          cause |-> "none", returned |-> None, calls |-> <<>>,
          posted |-> NoPost, response |-> NoResponse]
    ELSE LET sent == [to |-> "ollama.chat", model |-> model_name,
                      role |-> "user",
                      content |-> prompt(bullet, jd_context, kws)] IN
         IF o.raised = "none"
         THEN [raised |-> "none", message |-> "", cause |-> "none",
               returned |-> strip(o.content), calls |-> <<"ollama.chat">>,
               posted |-> sent,
               response |-> [message |-> [content |-> o.content]]]
         ELSE [raised |-> "ConnectionError",
               message |-> "Ollama service unavailable. Ensure Ollama is running.",
               cause |-> o.raised, returned |-> None,
               calls |-> <<"ollama.chat">>, posted |-> sent,
               response |-> NoResponse]

\* optimize_bullet_point(bullet, jd_context, keywords): the value returned or
\* the exception raised and its cause, the library calls made, the message
\* sent and the response received
optimize_bullet_point(model_name, bullet, jd_context, kws, o) ==
    IF strip(bullet) = ""
    THEN [raised |-> "ValueError", message |-> "Bullet point cannot be empty",
          cause |-> "none", returned |-> None, calls |-> <<>>,
          posted |-> NoPost, response |-> NoResponse]
    ELSE LET sent == [to |-> "ollama.chat", model |-> model_name,
                      role |-> "user",
                      content |-> prompt(bullet, jd_context, kws)] IN
         IF o.raised = "none"
         THEN [raised |-> "none", message |-> "", cause |-> "none",
               returned |-> strip(o.content), calls |-> <<"ollama.chat">>,
               posted |-> sent,
               response |-> [message |-> [content |-> o.content]]]
         ELSE IF o.raised = "ResponseError"
         THEN [raised |-> "RuntimeError",
               message |-> "LLM inference failed: " \o LibraryMessage("ollama.chat"),
               cause |-> o.raised, returned |-> None,
               calls |-> <<"ollama.chat">>, posted |-> sent,
               response |-> NoResponse]
         ELSE [raised |-> "ConnectionError",
               message |-> "Ollama service unavailable. Ensure Ollama is running.",
               cause |-> o.raised, returned |-> None,
               calls |-> <<"ollama.chat">>, posted |-> sent,
               response |-> NoResponse]

\* the arguments given to optimize_bullet_point
Bullets == ReqTexts
JdContexts == {"", "ss as"}
KeywordLists == {<<>>, <<"ss">>, <<"ss", "sa">>}

(***************************************************************************)
(* scan_for_hidden_text and scan_for_hidden_text_detailed of               *)
(* src/src/simulation/ats_check.py.  The file at pdf_path: whether it      *)
(* exists, whether fitz.open opens it, the number of the page whose        *)
(* get_text raises (0 for none) and its pages.  A page is the sequence of  *)
(* its blocks, a block has lines or not (an image block), a line is the    *)
(* sequence of its spans, a span has a color and a text or lacks them.     *)
(***************************************************************************)
\* WHITE_COLOR
WHITE_COLOR == 16777215

\* the snippet lengths of lines 55 and 101
PreviewLen == 50
SnippetLen == 100

\* the concatenation of the sequences of a sequence
RECURSIVE Flatten(_)
Flatten(ss) == IF ss = <<>> THEN <<>> ELSE Head(ss) \o Flatten(Tail(ss))

\* span.get("color", 0) == WHITE_COLOR with a default of WHITE_COLOR
IsHidden_DefaultWhite(span) ==
    (IF span.has_color THEN span.color ELSE WHITE_COLOR) = WHITE_COLOR

\* lines 51-54: span.get("color", 0) == WHITE_COLOR
IsHidden(span) == (IF span.has_color THEN span.color ELSE 0) = WHITE_COLOR

\* span.get("text", "")
TextOf(span) == IF span.has_text THEN span.text ELSE ""

\* the spans the loops of lines 45-50 visit on a page, in their order: those
\* of the lines of the blocks that have lines
SpansOf(page) ==
    Flatten([b \in 1..Len(page) |->
               IF page[b].has_lines THEN Flatten(page[b].lines) ELSE <<>>])

\* the loop of line 42 from page page_num on
RECURSIVE scan_pages(_, _)
scan_pages(file, page_num) ==
    IF page_num > Len(file.pages)
    THEN [raised |-> "none", returned |-> "False", preview |-> ""]
    ELSE IF page_num = file.unreadable
    THEN [raised |-> "ValueError", returned |-> None, preview |-> ""]
    ELSE LET spans  == SpansOf(file.pages[page_num])
             hidden == {i \in 1..Len(spans) : IsHidden(spans[i])}
         IN  IF hidden = {} THEN scan_pages(file, page_num + 1)
             ELSE LET i == CHOOSE i \in hidden : \A j \in hidden : i <= j
                  IN  [raised |-> "none", returned |-> "True",
                       preview |-> Take(TextOf(spans[i]), PreviewLen)]

\* scan_for_hidden_text(pdf_path): "True" or "False" returned or the
\* exception raised, the text of the warning, the document afterwards
scan_for_hidden_text(file) ==
    IF ~file.exists
    THEN [raised |-> "FileNotFoundError", returned |-> None, preview |-> "",
          doc |-> "none"]
    ELSE IF ~file.opens
    THEN [raised |-> "ValueError", returned |-> None, preview |-> "",
          doc |-> "none"]
    ELSE LET r == scan_pages(file, 1)
         IN  [raised |-> r.raised, returned |-> r.returned,
              preview |-> r.preview, doc |-> "closed"]

\* the flags of lines 98-103 for the pages from page_num on
RECURSIVE flags_from(_, _)
flags_from(file, page_num) ==
    IF page_num > Len(file.pages) THEN [raised |-> "none", flags |-> <<>>]
    ELSE IF page_num = file.unreadable
    THEN [raised |-> "RuntimeError", flags |-> <<>>]
    ELSE LET spans == SpansOf(file.pages[page_num])
             here  == Flatten([i \in 1..Len(spans) |->
                         IF IsHidden(spans[i])
                         THEN <<[page_number |-> page_num,
                                 text_snippet |-> Take(TextOf(spans[i]), SnippetLen),
                                 color |-> spans[i].color]>>
                         ELSE <<>>])
             rest  == flags_from(file, page_num + 1)
         IN  IF rest.raised # "none" THEN rest
             ELSE [raised |-> "none", flags |-> here \o rest.flags]

\* scan_for_hidden_text_detailed(pdf_path): the list returned or the
\* exception raised, which is the library's, the document afterwards
scan_for_hidden_text_detailed(file) ==
    IF ~file.exists
    THEN [raised |-> "FileNotFoundError", returned |-> <<>>, doc |-> "none"]
    ELSE IF ~file.opens
    THEN [raised |-> "FileDataError", returned |-> <<>>, doc |-> "none"]
    ELSE LET r == flags_from(file, 1)
         IN  [raised |-> r.raised, returned |-> r.flags, doc |-> "closed"]

\* the spans, lines, blocks, pages and files of the model
MaxSpans == 2
SpanPool ==
    {[has_color |-> FALSE, color |-> 0, has_text |-> TRUE, text |-> "ss"],
     [has_color |-> TRUE, color |-> 0, has_text |-> TRUE, text |-> "ss"],
     [has_color |-> TRUE, color |-> WHITE_COLOR - 1, has_text |-> TRUE, text |-> "ss"],
     [has_color |-> TRUE, color |-> WHITE_COLOR, has_text |-> TRUE, text |-> "as"],
     [has_color |-> TRUE, color |-> WHITE_COLOR, has_text |-> FALSE, text |-> ""]}
LinePool == UNION {[1..n -> SpanPool] : n \in 0..MaxSpans}
ImageBlock == [has_lines |-> FALSE, lines |-> <<>>]
BlockPool ==
    {ImageBlock, [has_lines |-> TRUE, lines |-> <<>>]}
    \cup {[has_lines |-> TRUE, lines |-> <<l>>] : l \in LinePool}
PagePool ==
    {<<>>} \cup {<<b>> : b \in BlockPool}
    \cup {<<ImageBlock, b>> : b \in BlockPool}
DocPool ==
    {<<>>} \cup {<<pg>> : pg \in PagePool}
    \cup {<<pg, q>> : pg \in PagePool, q \in PagePool}
PdfFiles ==
    {NoFile, [exists |-> TRUE, opens |-> FALSE, unreadable |-> 0, pages |-> <<>>]}
    \cup {[exists |-> TRUE, opens |-> TRUE, unreadable |-> u, pages |-> d] :
            d \in DocPool, u \in {0, 2}}

(***************************************************************************)
(* The Streamlit page of src/src/ui.py, from the press of the Analyze      *)
(* button on, and the binding of the parameters of POST /analyze/text.     *)
(***************************************************************************)
\* API_URL
API_URL == "http://localhost:8000"

\* common_keywords of extract_keywords_from_jd
common_keywords ==
    <<"python", "java", "javascript", "typescript", "react", "angular",
      "vue", "node", "nodejs", "express", "django", "flask", "fastapi",
      "spring", "aws", "azure", "gcp", "docker", "kubernetes", "k8s",
      "terraform", "sql", "mysql", "postgresql", "mongodb", "redis",
      "elasticsearch", "git", "github", "gitlab", "ci/cd", "jenkins",
      "devops", "agile", "rest", "api", "microservices", "linux", "bash",
      "shell", "machine learning", "ml", "ai", "data science", "pandas",
      "numpy", "html", "css", "tailwind", "bootstrap", "figma", "ui/ux">>

\* the cut of line 77
JdKeywordCap == 20

\* sub in s
Contains(s, sub) ==
    \E i \in 0..(Len(s) - Len(sub)) : SubSeq(s, i + 1, i + Len(sub)) = sub

\* s.replace(old, new) for a character old
RECURSIVE replace(_, _, _)
replace(s, old, new) ==
    IF s = "" THEN ""
    ELSE (IF Head(s) = old THEN new ELSE Head(s)) \o replace(Tail(s), old, new)

\* s.split(): the runs of s between white space
split_whitespace(s) ==
    SelectSeq(split(replace(s, "\n", " ")), LAMBDA w : w # "")

\* extract_keywords_from_jd(jd_text)
extract_keywords_from_jd(jd_text) ==
    LET jd_lower       == LowerText(jd_text)
        found_keywords == SelectSeq(common_keywords,
                                    LAMBDA keyword : Contains(jd_lower, keyword))
    IN  IF found_keywords # <<>> THEN found_keywords
        ELSE Take(split_whitespace(replace(jd_text, ",", " ")), JdKeywordCap)

\* extract_text_from_pdf(pdf_file) of ui.py: the stripped text of the pages
\* or the library's exception
ui_extract_text_from_pdf(pdf) ==
    IF pdf.broken # "no"
    THEN [raised |-> "FileDataError", text |-> "",
          message |-> LibraryMessage(pdf.broken)]
    ELSE [raised |-> "none", text |-> strip(join("", pdf.pages)), message |-> ""]

\* the names of the form fields a request carries
FormFields(req) == IF req.encoding = "form" THEN DOMAIN req.body ELSE {}

\* POST /analyze/text as FastAPI serves it: resume_text and job_description
\* are required form fields (Form(...)); a request without them is answered
\* 422 before the handler runs
post_analyze_text(req) ==
    IF {"resume_text", "job_description"} \subseteq FormFields(req)
    THEN analyze_text(req.body.resume_text, req.body.job_description)
    ELSE [status |-> 422, detail |-> "Field required"]

\* lines 125-201: what the page does when Analyze is pressed, up telling
\* whether the backend can be reached
press_analyze(resume_file, jd_text, up) ==
    LET nothing == [resume_text |-> "", keywords |-> <<>>, posted |-> NoPost,
                    response |-> NoResponse, caught |-> "none", shown |-> ""]
        resume  == ui_extract_text_from_pdf(resume_file.pdf)
        kws     == extract_keywords_from_jd(jd_text)
        sent    == [to |-> API_URL \o "/analyze/text", encoding |-> "json",
                    body |-> [text |-> resume.text, keywords |-> kws]]
        resp    == post_analyze_text(sent)
    IN  IF resume_file = NoUpload
        THEN [nothing EXCEPT !.shown = "Please upload your resume (PDF)"]
        ELSE IF strip(jd_text) = ""
        THEN [nothing EXCEPT !.shown = "Please provide a job description"]
        ELSE IF resume.raised # "none"
        THEN [nothing EXCEPT !.caught = resume.raised,
                             !.shown = "Error: " \o resume.message]
        ELSE IF ~up
        THEN [nothing EXCEPT !.resume_text = resume.text, !.keywords = kws,
                             !.posted = sent, !.caught = "ConnectionError",
                             !.shown = "Cannot connect to API at " \o API_URL
                                       \o ". Make sure the backend is running."]
        ELSE [resume_text |-> resume.text, keywords |-> kws, posted |-> sent,
              response |-> resp, caught |-> "none",
              shown |-> IF resp.status = 200 THEN ""
                        ELSE "API Error: " \o ToString(resp.status)
                             \o " - " \o resp.detail]

(***************************************************************************)
(* The caller                                                              *)
(***************************************************************************)
Init ==
    /\ pc = "idle"
    /\ op = "none"
    /\ text = ""
    /\ words = <<>>
    /\ keywords = {}
    /\ resume_keywords = {}
    /\ jd_keywords = {}
    /\ result = NoResult
    /\ score = 0
    /\ label = ""
    /\ resume_text = ""
    /\ job_description = ""
    /\ response = NoResponse
    /\ printed = <<>>
    /\ raised = "none"
    /\ upload = NoUpload
    /\ doc = "none"
    /\ masked = ""
    /\ _analyzer = "None"
    /\ _anonymizer = "None"
    /\ memo = NoMemo
    /\ requests = [i \in 1..NumRequests |-> NoRequest]
    /\ error = NoError
    /\ calls = <<>>
    /\ returned = "None"
    /\ pdf_path = NoFile
    /\ posted = NoPost

\* keywords = extract_keywords(text), for a text of T
ExtractKeywordsOf(T) ==
    /\ pc = "idle"
    /\ \E t \in T :
          /\ text' = t
          /\ words' = extract_words(t)
          /\ keywords' = filter_stop_words(extract_words(t))
    /\ raised' = "none"
    /\ op' = "extract_keywords"
    /\ pc' = "returned"
    /\ UNCHANGED tools
    /\ UNCHANGED <<resume_keywords, jd_keywords, result, score, label,
                   resume_text, job_description, response, printed,
                   upload, doc, masked, engines, memo,
                   requests, error, calls>>

CallExtractKeywords == ExtractKeywordsOf(Texts \cup Phrases)

\* result = calculate_ats_score(resume_keywords, jd_keywords), for two subsets
\* of V
CalculateAtsScoreOf(V) ==
    /\ pc = "idle"
    /\ \E r \in SUBSET V, j \in SUBSET V :
          /\ resume_keywords' = r
          /\ jd_keywords' = j
          /\ result' = calculate_ats_score(r, j)
          /\ printed' = calculate_ats_score_prints(r, j)
          /\ raised' = calculate_ats_score(r, j).raised
    /\ op' = "calculate_ats_score"
    /\ pc' = "returned"
    /\ UNCHANGED tools
    /\ UNCHANGED <<text, words, keywords, score, label, resume_text,
                   job_description, response, upload, doc, masked, engines, memo,
                   requests, error, calls>>

CallCalculateAtsScore == CalculateAtsScoreOf(Vocabulary)

\* label = get_score_label(score)
CallGetScoreLabel ==
    /\ pc = "idle"
    /\ \E sc \in 0..MaxScoreArg :
          /\ score' = sc
          /\ label' = get_score_label(sc)
    /\ raised' = "none"
    /\ op' = "get_score_label"
    /\ pc' = "returned"
    /\ UNCHANGED tools
    /\ UNCHANGED <<text, words, keywords, resume_keywords, jd_keywords,
                   result, resume_text, job_description, response, printed,
                   upload, doc, masked, engines, memo,
                   requests, error, calls>>

\* POST /analyze/text with form fields resume_text and job_description, for
\* a pair of texts of Reqs
AnalyzeTextOf(Reqs) ==
    /\ pc = "idle"
    /\ \E req \in Reqs :
          LET rt        == req[1]
              jd        == req[2]
              resp      == analyze_text(rt, jd)
              resume_kw == extract_keywords(rt)
              jd_kw     == extract_keywords(jd)
          IN  /\ resume_text' = rt
              /\ job_description' = jd
              /\ response' = resp
              /\ IF analyze_text_validates(rt, jd)
                 THEN /\ resume_keywords' = resume_kw
                      /\ jd_keywords' = jd_kw
                      /\ result' = calculate_ats_score(resume_kw, jd_kw)
                      /\ printed' = calculate_ats_score_prints(resume_kw, jd_kw)
                 ELSE UNCHANGED <<resume_keywords, jd_keywords, result,
                                  printed>>
              /\ raised' = raised_by(resp)
    /\ op' = "analyze_text"
    /\ pc' = "returned"
    /\ UNCHANGED tools
    /\ UNCHANGED <<text, words, keywords, score, label,
                   upload, doc, masked, engines, memo,
                   requests, error, calls>>

CallAnalyzeText == AnalyzeTextOf(ReqTexts \X ReqTexts)

\* the call is over: its frame is dropped
DropFrame ==
    /\ pc = "returned"
    /\ pc' = "idle"
    /\ op' = "none"
    /\ text' = ""
    /\ words' = <<>>
    /\ keywords' = {}
    /\ resume_keywords' = {}
    /\ jd_keywords' = {}
    /\ result' = NoResult
    /\ score' = 0
    /\ label' = ""
    /\ resume_text' = ""
    /\ job_description' = ""
    /\ response' = NoResponse
    /\ printed' = <<>>
    /\ raised' = "none"
    /\ upload' = NoUpload
    /\ doc' = "none"
    /\ error' = NoError
    /\ calls' = <<>>
    /\ masked' = ""
    /\ returned' = "None"
    /\ pdf_path' = NoFile
    /\ posted' = NoPost
    /\ UNCHANGED engines

Return == DropFrame /\ UNCHANGED <<memo, requests>>

Next ==
    \/ CallExtractKeywords
    \/ CallCalculateAtsScore
    \/ CallGetScoreLabel
    \/ CallAnalyzeText
    \/ Return

Spec == Init /\ [][Next]_vars

(***************************************************************************)
(* The two handlers, POST /analyze/text and POST /analyze, on short        *)
(* requests and on requests long enough for the lists to be cut            *)
(***************************************************************************)
\* pages of an uploaded PDF
MaxPages == 2
\* how far the keyword counts of a long request go around the two caps
LongMargin == 1

PageTexts == {"", " ", "ss", "as", "SS", "s3"}
Filenames == {"cv.pdf", "CV.PDF", "cv.txt", "pdf"}

Pdfs ==
    {[broken |-> "no", pages |-> p] :
        p \in UNION {[1..n -> PageTexts] : n \in 1..MaxPages}}
    \cup {[broken |-> "open", pages |-> <<>>],
          [broken |-> "page", pages |-> <<"ss">>]}

Uploads == [filename : Filenames, pdf : Pdfs]

\* two-letter words of consonants, none of them a stop word, in an order
\* that is not the sorted one
Consonants == "bcdfgjklmnpqrstvwxz"
LongWord(i) ==
    At(Consonants, ((7 * i) % 19) + 1) \o At(Consonants, ((i \div 19) % 19) + 1)

\* the words from, from + 1, ..., from + n - 1 with a space between
LongText(from, n) == join(" ", [k \in 1..n |-> LongWord(from + k - 1)])

\* <<n, m>>: n keywords the resume shares with the JD, m it lacks
LongCounts ==
    ((MatchedCap - LongMargin)..(MatchedCap + LongMargin))
        \X ((MissingCap - LongMargin)..(MissingCap + LongMargin))

LongRequests ==
    {<<LongText(0, c[1]), LongText(0, c[1] + c[2])>> : c \in LongCounts}

\* the same resumes as PDFs of two pages
LongUploads ==
    {<<[filename |-> "cv.pdf",
        pdf |-> [broken |-> "no",
                 pages |-> <<LongText(0, MissingCap),
                             LongText(MissingCap, c[1] - MissingCap)>>]],
       LongText(0, c[1] + c[2])>> : c \in LongCounts}

\* POST /analyze with an uploaded file and the form field job_description,
\* for a pair of Reqs
AnalyzeResumeOf(Reqs) ==
    /\ pc = "idle"
    /\ \E req \in Reqs :
          LET resume == req[1]
              jd     == req[2]
              r      == analyze_resume(resume, jd)
              resume_kw == extract_keywords(r.resume_text)
              jd_kw     == extract_keywords(jd)
          IN  /\ upload' = resume
              /\ job_description' = jd
              /\ resume_text' = r.resume_text
              /\ doc' = r.doc
              /\ response' = r.response
              /\ IF r.response.status # 400
                 THEN /\ resume_keywords' = resume_kw
                      /\ jd_keywords' = jd_kw
                      /\ result' = calculate_ats_score(resume_kw, jd_kw)
                      /\ printed' = calculate_ats_score_prints(resume_kw, jd_kw)
                 ELSE UNCHANGED <<resume_keywords, jd_keywords, result,
                                  printed>>
              /\ raised' = raised_by(r.response)
    /\ op' = "analyze_resume"
    /\ pc' = "returned"
    /\ UNCHANGED tools
    /\ UNCHANGED <<text, words, keywords, score, label, masked, engines, memo,
                   requests, error, calls>>

\* short requests: every text against a few, every upload against a few
ResumePool == {" ", "ss", "SS sa", "as"}
JdPool == {" ", "ss", "sa aa", "as", "33"}
UploadPool ==
    {[filename |-> "cv.pdf", pdf |-> [broken |-> "no", pages |-> <<"ss", "sa">>]],
     [filename |-> "CV.PDF", pdf |-> [broken |-> "no", pages |-> <<" ", "">>]],
     [filename |-> "cv.pdf", pdf |-> [broken |-> "page", pages |-> <<"ss">>]]}

CallAnalyzeTextShort ==
    AnalyzeTextOf((ReqTexts \X JdPool) \cup (ResumePool \X ReqTexts))
CallAnalyzeResume ==
    AnalyzeResumeOf((Uploads \X JdPool) \cup (UploadPool \X ReqTexts))
CallAnalyzeTextLong == AnalyzeTextOf(LongRequests)
CallAnalyzeResumeLong == AnalyzeResumeOf(LongUploads)

\* text = extract_text_from_pdf(pdf_bytes), for the bytes of upload
CallExtractTextFromPdf ==
    /\ pc = "idle"
    /\ \E pdf \in Pdfs :
          LET r == extract_text_from_pdf(pdf)
          IN  /\ upload' = [filename |-> "", pdf |-> pdf]
              /\ text' = r.text
              /\ raised' = r.raised
              /\ error' = [type |-> r.raised, message |-> r.message]
              /\ doc' = r.doc
    /\ op' = "extract_text_from_pdf"
    /\ pc' = "returned"
    /\ UNCHANGED tools
    /\ UNCHANGED <<words, keywords, resume_keywords, jd_keywords, result,
                   score, label, resume_text, job_description, response,
                   printed, masked, engines, memo, requests, calls>>

NextHandlers ==
    \/ CallExtractTextFromPdf
    \/ CallAnalyzeTextShort
    \/ CallAnalyzeResume
    \/ CallAnalyzeTextLong
    \/ CallAnalyzeResumeLong
    \/ Return

SpecHandlers == Init /\ [][NextHandlers]_vars

\* extract_keywords alone
NextExtract ==
    \/ CallExtractKeywords
    \/ Return

SpecExtract == Init /\ [][NextExtract]_vars

\* extract_keywords on a text, for its comparison with the case variants of
\* the text
NextCase ==
    \/ CallExtractKeywords
    \/ Return

SpecCase == Init /\ [][NextCase]_vars

(***************************************************************************)
(* Requests in flight together.  Each runs its handler in steps, and any   *)
(* step of one may come between two steps of another: the event loop at    *)
(* the await of analyze_resume, worker processes anywhere.  The locals of  *)
(* a handler belong to its request; standard output (printed) is shared.   *)
(***************************************************************************)
ConcurrentInputs ==
    {[kind |-> "text", resume |-> rt, jd |-> jd] :
        rt \in {"ss", " "}, jd \in {"ss aa", "sa"}}
    \cup {[kind |-> "resume", resume |-> u, jd |-> "aa ss"] :
            u \in {[filename |-> "cv.pdf",
                    pdf |-> [broken |-> "no", pages |-> <<"ss", "sa">>]],
                   [filename |-> "cv.txt",
                    pdf |-> [broken |-> "no", pages |-> <<"ss">>]]}}

\* the locals of request i with the two keyword sets of another request
\* that has extracted its own, as if the sets were module globals
own_Shared(reqs, i) ==
    LET others == {j \in DOMAIN reqs \ {i} :
                      \/ reqs[j].pc \in {"extracted", "scored"}
                      \/ reqs[j].response.status = 200}
    IN  IF others = {} THEN reqs[i]
        ELSE LET j == CHOOSE k \in others : TRUE
             IN  [reqs[i] EXCEPT !.resume_keywords = reqs[j].resume_keywords,
                                 !.jd_keywords = reqs[j].jd_keywords]

\* the locals of request i
own(reqs, i) == reqs[i]

InHandler(r) == r.pc \notin {"none", "responded"}

\* request i takes a step to the record r
Step(i, r) ==
    requests' = [requests EXCEPT ![i] =
        [r EXCEPT !.overlapped =
            @ \/ \E j \in DOMAIN requests \ {i} : InHandler(requests[j])]]

Responded(r, resp) == [r EXCEPT !.pc = "responded", !.response = resp]

\* a request arrives
Receive ==
    /\ pc = "idle"
    /\ \E i \in DOMAIN requests, input \in ConcurrentInputs :
          /\ requests[i].pc = "none"
          /\ \A k \in 1..(i - 1) : requests[k].pc # "none"
          /\ requests' = [requests EXCEPT ![i] =
                [NoRequest EXCEPT !.pc = "received", !.kind = input.kind,
                                  !.resume = input.resume, !.jd = input.jd]]
    /\ UNCHANGED tools
    /\ UNCHANGED <<pc, op, text, words, keywords, resume_keywords, jd_keywords,
                   result, score, label, resume_text, job_description,
                   response, printed, raised, upload, doc, masked, engines,
                   memo, error, calls>>

\* analyze_resume, lines 289-297: the file name is tested, then the handler
\* awaits resume.read()
OpenUpload ==
    /\ \E i \in DOMAIN requests : LET r == own(requests, i) IN
          /\ requests[i].pc = "received"
          /\ requests[i].kind = "resume"
          /\ Step(i, IF ~endswith(LowerText(r.resume.filename), ".pdf")
                     THEN Responded(r, [status |-> 400,
                                        detail |-> "Only PDF files are supported"])
                     ELSE [r EXCEPT !.pc = "reading"])
    /\ UNCHANGED tools
    /\ UNCHANGED <<pc, op, text, words, keywords, resume_keywords, jd_keywords,
                   result, score, label, resume_text, job_description,
                   response, printed, raised, upload, doc, masked, engines,
                   memo, error, calls>>

\* lines 341-351 of analyze_text; lines 297-312 of analyze_resume
Validate ==
    /\ \E i \in DOMAIN requests : LET r == own(requests, i) IN
          \/ /\ requests[i].pc = "received"
             /\ requests[i].kind = "text"
             /\ Step(i, IF strip(r.resume) = ""
                        THEN Responded(r, [status |-> 400,
                                 detail |-> "Resume text cannot be empty"])
                        ELSE IF strip(r.jd) = ""
                        THEN Responded(r, [status |-> 400,
                                 detail |-> "Job description cannot be empty"])
                        ELSE [r EXCEPT !.pc = "validated",
                                       !.resume_text = r.resume])
          \/ /\ requests[i].pc = "reading"
             /\ LET pdf == extract_text_from_pdf(r.resume.pdf) IN
                Step(i, IF pdf.raised = "ValueError"
                        THEN Responded(r, [status |-> 400,
                                           detail |-> pdf.message])
                        ELSE IF strip(pdf.text) = ""
                        THEN Responded(r, [status |-> 400,
                                 detail |-> "Could not extract text from PDF"])
                        ELSE IF strip(r.jd) = ""
                        THEN Responded(r, [status |-> 400,
                                 detail |-> "Job description cannot be empty"])
                        ELSE [r EXCEPT !.pc = "validated",
                                       !.resume_text = pdf.text])
    /\ UNCHANGED tools
    /\ UNCHANGED <<pc, op, text, words, keywords, resume_keywords, jd_keywords,
                   result, score, label, resume_text, job_description,
                   response, printed, raised, upload, doc, masked, engines,
                   memo, error, calls>>

\* lines 353-354 and 314-316: the two keyword sets
ExtractBoth ==
    /\ \E i \in DOMAIN requests : LET r == own(requests, i) IN
          /\ requests[i].pc = "validated"
          /\ Step(i, [r EXCEPT !.pc = "extracted",
                               !.resume_keywords = extract_keywords(r.resume_text),
                               !.jd_keywords = extract_keywords(r.jd)])
    /\ UNCHANGED tools
    /\ UNCHANGED <<pc, op, text, words, keywords, resume_keywords, jd_keywords,
                   result, score, label, resume_text, job_description,
                   response, printed, raised, upload, doc, masked, engines,
                   memo, error, calls>>

\* lines 357 and 319: the scorer, which prints to the shared output
ScoreBoth ==
    /\ \E i \in DOMAIN requests : LET r == own(requests, i) IN
          /\ requests[i].pc = "extracted"
          /\ Step(i, [r EXCEPT !.pc = "scored",
                               !.result = calculate_ats_score(r.resume_keywords,
                                                              r.jd_keywords)])
          /\ printed' = printed \o calculate_ats_score_prints(r.resume_keywords,
                                                             r.jd_keywords)
    /\ UNCHANGED tools
    /\ UNCHANGED <<pc, op, text, words, keywords, resume_keywords, jd_keywords,
                   result, score, label, resume_text, job_description,
                   response, raised, upload, doc, masked, engines, memo,
                   error, calls>>

\* lines 360-367 and 321-328: the response
Respond ==
    /\ \E i \in DOMAIN requests : LET r == own(requests, i) IN
          /\ requests[i].pc = "scored"
          /\ Step(i, Responded(r, AnalysisResultOf(r.result, r.jd_keywords)))
    /\ UNCHANGED tools
    /\ UNCHANGED <<pc, op, text, words, keywords, resume_keywords, jd_keywords,
                   result, score, label, resume_text, job_description,
                   response, printed, raised, upload, doc, masked, engines,
                   memo, error, calls>>

NextConcurrent ==
    \/ Receive
    \/ OpenUpload
    \/ Validate
    \/ ExtractBoth
    \/ ScoreBoth
    \/ Respond

SpecConcurrent == Init /\ [][NextConcurrent]_vars

(***************************************************************************)
(* The guardian and its endpoint.  The engines stay between calls.         *)
(***************************************************************************)
\* masked = mask_pii(text)
CallMaskPii ==
    /\ pc = "idle"
    /\ \E t \in GuardianTexts : \E o \in Oracles(t) :
          LET m == mask_pii(t, _analyzer, _anonymizer, o)
          IN  /\ text' = t
              /\ masked' = m.masked
              /\ raised' = m.raised
              /\ error' = [type |-> m.raised, message |-> m.message]
              /\ calls' = m.calls
              /\ _analyzer' = m.analyzer
              /\ _anonymizer' = m.anonymizer
    /\ op' = "mask_pii"
    /\ pc' = "returned"
    /\ UNCHANGED tools
    /\ UNCHANGED <<words, keywords, resume_keywords, jd_keywords, result,
                   score, label, resume_text, job_description, response,
                   printed, upload, doc, memo, requests>>

\* POST /optimize/sanitize with a body whose resume_text is a string; a text
\* shorter than min_length is refused before the handler runs
CallSanitizeInput ==
    /\ pc = "idle"
    /\ \E t \in SanitizeTexts : \E o \in Oracles(t) :
          LET m == mask_pii(t, _analyzer, _anonymizer, o)
          IN  /\ resume_text' = t
              /\ IF Len(t) < MinLength
                 THEN /\ response' = [status |-> 422]
                      /\ raised' = "RequestValidationError"
                      /\ UNCHANGED <<masked, error, calls, engines>>
                 ELSE /\ response' = sanitize_input(t, m)
                      /\ raised' = IF m.raised = "none" THEN "none"
                                   ELSE "HTTPException"
                      /\ masked' = m.masked
                      /\ error' = [type |-> m.raised, message |-> m.message]
                      /\ calls' = m.calls
                      /\ _analyzer' = m.analyzer
                      /\ _anonymizer' = m.anonymizer
    /\ op' = "sanitize_input"
    /\ pc' = "returned"
    /\ UNCHANGED tools
    /\ UNCHANGED <<text, words, keywords, resume_keywords, jd_keywords, result,
                   score, label, job_description, printed, upload, doc, memo,
                   requests>>

NextGuardian ==
    \/ CallMaskPii
    \/ CallSanitizeInput
    \/ Return

SpecGuardian == Init /\ [][NextGuardian]_vars

(***************************************************************************)
(* The optimizer, made with the default model.                             *)
(***************************************************************************)
\* returned = ResumeOptimizer().optimize_bullet_point(text, job_description,
\* words)
CallOptimizeBulletPoint ==
    /\ pc = "idle"
    /\ \E b \in Bullets, j \in JdContexts, k \in KeywordLists, o \in ChatOracles :
          LET r == optimize_bullet_point(DEFAULT_MODEL, b, j, k, o)
          IN  /\ text' = b
              /\ job_description' = j
              /\ words' = k
              /\ returned' = r.returned
              /\ raised' = r.raised
              /\ error' = [type |-> r.raised, message |-> r.message,
                           cause |-> r.cause]
              /\ calls' = r.calls
              /\ posted' = r.posted
              /\ response' = r.response
    /\ op' = "optimize_bullet_point"
    /\ pc' = "returned"
    /\ UNCHANGED <<keywords, resume_keywords, jd_keywords, result, score,
                   label, resume_text, printed, upload, doc, masked, engines,
                   memo, requests, pdf_path>>

NextOptimizer ==
    \/ CallOptimizeBulletPoint
    \/ Return

SpecOptimizer == Init /\ [][NextOptimizer]_vars

(***************************************************************************)
(* The scanner for hidden text.                                            *)
(***************************************************************************)
\* returned = scan_for_hidden_text(pdf_path)
CallScanForHiddenText ==
    /\ pc = "idle"
    /\ \E f \in PdfFiles :
          LET r == scan_for_hidden_text(f)
          IN  /\ pdf_path' = f
              /\ returned' = r.returned
              /\ raised' = r.raised
              /\ text' = r.preview
              /\ doc' = r.doc
    /\ op' = "scan_for_hidden_text"
    /\ pc' = "returned"
    /\ UNCHANGED <<words, keywords, resume_keywords, jd_keywords, result,
                   score, label, resume_text, job_description, response,
                   printed, upload, masked, engines, memo, requests, error,
                   calls, posted>>

\* returned = scan_for_hidden_text_detailed(pdf_path)
CallScanForHiddenTextDetailed ==
    /\ pc = "idle"
    /\ \E f \in PdfFiles :
          LET r == scan_for_hidden_text_detailed(f)
          IN  /\ pdf_path' = f
              /\ returned' = r.returned
              /\ raised' = r.raised
              /\ doc' = r.doc
    /\ op' = "scan_for_hidden_text_detailed"
    /\ pc' = "returned"
    /\ UNCHANGED <<text, words, keywords, resume_keywords, jd_keywords, result,
                   score, label, resume_text, job_description, response,
                   printed, upload, masked, engines, memo, requests, error,
                   calls, posted>>

NextScanner ==
    \/ CallScanForHiddenText
    \/ CallScanForHiddenTextDetailed
    \/ Return

SpecScanner == Init /\ [][NextScanner]_vars

(***************************************************************************)
(* The page: the user has chosen a resume file or none, has given a job    *)
(* description or none, and presses Analyze.                               *)
(***************************************************************************)
\* job descriptions pasted into the page
UiJdTexts == JdPool \cup {"", "Python and SQL", "ss,sa as"}

PressAnalyze ==
    /\ pc = "idle"
    /\ \E in \in ((Uploads \cup {NoUpload}) \X UiJdTexts)
                    \cup ((UploadPool \cup {NoUpload}) \X ReqTexts),
          up \in BOOLEAN :
          LET r == press_analyze(in[1], in[2], up)
          IN  /\ upload' = in[1]
              /\ job_description' = in[2]
              /\ resume_text' = r.resume_text
              /\ words' = r.keywords
              /\ posted' = r.posted
              /\ response' = r.response
              /\ error' = [type |-> r.caught, message |-> r.shown]
              /\ score' = IF r.response.status = 200 THEN r.response.score ELSE 0
              /\ label' = IF r.response.status = 200 THEN r.response.score_label
                          ELSE ""
    /\ op' = "analyze_button"
    /\ pc' = "returned"
    /\ UNCHANGED <<text, keywords, resume_keywords, jd_keywords, result,
                   printed, raised, doc, masked, engines, memo, requests,
                   calls, returned, pdf_path>>

NextUi ==
    \/ PressAnalyze
    \/ Return

SpecUi == Init /\ [][NextUi]_vars

(***************************************************************************)
(* Repeated calls: the caller notes one result of extract_keywords and     *)
(* goes on calling; between is whether another call returned since.        *)
(***************************************************************************)
RepeatRequests == {" ", "ss", "as", "SS"} \X {" ", "ss", "as 3"}

RepeatExtractKeywords == ExtractKeywordsOf(ReqTexts)
RepeatCalculateAtsScore == CalculateAtsScoreOf({KeywordPool[1], KeywordPool[2]})
RepeatAnalyzeText == AnalyzeTextOf(RepeatRequests)

\* the caller notes the set extract_keywords just returned
NoteAndReturn ==
    /\ DropFrame
    /\ op = "extract_keywords"
    /\ memo' = [set |-> TRUE, text |-> text, keywords |-> keywords,
                between |-> FALSE]
    /\ UNCHANGED requests

ReturnNoted ==
    /\ DropFrame
    /\ memo' = IF memo.set THEN [memo EXCEPT !.between = TRUE] ELSE memo
    /\ UNCHANGED requests

NextRepeat ==
    \/ RepeatExtractKeywords
    \/ RepeatCalculateAtsScore
    \/ RepeatAnalyzeText
    \/ NoteAndReturn
    \/ ReturnNoted

SpecRepeat == Init /\ [][NextRepeat]_vars

(***************************************************************************)
(* Properties                                                              *)
(***************************************************************************)
ScoreReturned == pc = "returned" /\ op = "calculate_ats_score"
LabelReturned == pc = "returned" /\ op = "get_score_label"
ExtractReturned == pc = "returned" /\ op = "extract_keywords"
AnalyzeReturned == pc = "returned" /\ op = "analyze_text"
ResumeReturned == pc = "returned" /\ op = "analyze_resume"
MaskReturned == pc = "returned" /\ op = "mask_pii"
OptimizeReturned == pc = "returned" /\ op = "optimize_bullet_point"
ScanReturned == pc = "returned" /\ op = "scan_for_hidden_text"
DetailedReturned == pc = "returned" /\ op = "scan_for_hidden_text_detailed"
UiReturned == pc = "returned" /\ op = "analyze_button"
PdfTextReturned == pc = "returned" /\ op = "extract_text_from_pdf"
SanitizeReturned == pc = "returned" /\ op = "sanitize_input"
HandlerReturned == AnalyzeReturned \/ ResumeReturned

Abs(n) == IF n < 0 THEN 0 - n ELSE n

\* C1: for every pair of keyword sets, an empty jd_keywords included, the
\* result of calculate_ats_score has matched \cup missing = jd_keywords and
\* matched \cap missing = {}.
C1_SetAlgebra ==
    ScoreReturned =>
        /\ result.raised = "none"
        /\ result.matched \cup result.missing = jd_keywords
        /\ result.matched \cap result.missing = {}

\* a call whose resume has keywords in the JD, keywords outside it, and misses some
C1_Witness ==
    /\ ScoreReturned
    /\ result.matched # {}
    /\ result.missing # {}
    /\ resume_keywords \ jd_keywords # {}

\* C2: for all resume and JD keyword sets the score returned by
\* calculate_ats_score is at least 0.0 and at most 100.0.
C2_ScoreBounds ==
    ScoreReturned =>
        /\ result.raised = "none"
        /\ 0 <= result.score
        /\ result.score <= 10000

\* a resume with more keywords than the JD, all of the JD's among them
C2_Witness ==
    /\ ScoreReturned
    /\ result.score = 10000
    /\ Cardinality(resume_keywords) > Cardinality(jd_keywords)

\* C3: with jd_keywords empty, calculate_ats_score returns score 0.0,
\* matched = {} and missing = {} for any resume_keywords and raises no
\* error (no division by zero).
C3_EmptyJd ==
    (ScoreReturned /\ jd_keywords = {}) =>
        /\ result.raised = "none"
        /\ result.score = 0
        /\ result.matched = {}
        /\ result.missing = {}

\* test_calculate_ats_score_empty_jd
C3_Witness ==
    /\ ScoreReturned
    /\ jd_keywords = {}
    /\ resume_keywords = {"python", "java"}

\* C4: with jd_keywords non-empty, matched = resume_keywords \cap jd_keywords,
\* missing = jd_keywords \ resume_keywords and score is
\* 100 * |matched| / |jd_keywords| rounded to 2 decimal places: the score is
\* a hundredth no further than half a hundredth from the quotient.  2 of 4
\* matched gives 50.0; disjoint sets give 0.0 with missing = jd_keywords.
C4_ScoreFormula ==
    (ScoreReturned /\ jd_keywords # {}) =>
        LET m == Cardinality(resume_keywords \cap jd_keywords)
            n == Cardinality(jd_keywords)
        IN  /\ result.raised = "none"
            /\ result.matched = resume_keywords \cap jd_keywords
            /\ result.missing = jd_keywords \ resume_keywords
            /\ 2 * Abs(result.score * n - 10000 * m) <= n
            /\ (m = 2 /\ n = 4) => result.score = 5000
            /\ (m = 0) => (result.score = 0 /\ result.missing = jd_keywords)

\* 2 of 3 matched: 66.666... is rounded up to 66.67
C4_Witness ==
    /\ ScoreReturned
    /\ Cardinality(jd_keywords) = 3
    /\ Cardinality(result.matched) = 2
    /\ result.score = 6667

\* C5: with jd_keywords non-empty and every JD keyword in resume_keywords
\* (in particular resume = jd), the score is exactly 100.0, matched =
\* jd_keywords and missing = {}.
C5_PerfectMatch ==
    (ScoreReturned /\ jd_keywords # {} /\ jd_keywords \subseteq resume_keywords) =>
        /\ result.raised = "none"
        /\ result.score = 10000
        /\ result.matched = jd_keywords
        /\ result.missing = {}

\* test_calculate_ats_score_perfect_match
C5_Witness ==
    /\ ScoreReturned
    /\ resume_keywords = {"python", "java", "docker"}
    /\ jd_keywords = {"python", "java", "docker"}
    /\ result.score = 10000

\* C6: get_score_label is total on [0, 100] and returns exactly one of five
\* labels, each band including its lower bound: score >= 80 Excellent Match,
\* 60 <= score < 80 Good Match, 40 <= score < 60 Fair Match, 20 <= score < 40
\* Needs Improvement, score < 20 Poor Match; 80.0, 60.0, 40.0 and 20.0 fall
\* in the upper band, 79.99 and 59.99 in the lower one.
C6_LabelBands ==
    LabelReturned =>
        /\ label \in {"Excellent Match", "Good Match", "Fair Match",
                      "Needs Improvement", "Poor Match"}
        /\ (label = "Excellent Match") <=> (score >= 8000)
        /\ (label = "Good Match") <=> (6000 <= score /\ score < 8000)
        /\ (label = "Fair Match") <=> (4000 <= score /\ score < 6000)
        /\ (label = "Needs Improvement") <=> (2000 <= score /\ score < 4000)
        /\ (label = "Poor Match") <=> (score < 2000)
        /\ (score = 7999) => label = "Good Match"
        /\ (score = 5999) => label = "Fair Match"
        /\ (score = 0) => label = "Poor Match"

\* the boundary 80.0
C6_Witness ==
    /\ LabelReturned
    /\ score = 8000
    /\ label = "Excellent Match"

\* The upper- and lower-case forms of a character: of an ASCII letter, and
\* with ascii = FALSE of any letter (the long s is a lower-case form of S).
CaseForms(c, ascii) ==
    CASE c \in {"a", "A"} -> {"a", "A"}
      [] c \in {"s", "S"} -> IF ascii THEN {"s", "S"} ELSE {"s", "S", "~"}
      [] c = "~"          -> IF ascii THEN {"~"} ELSE {"s", "S", "~"}
      [] OTHER            -> {c}

\* the texts that differ from t at most in the case of their letters
RECURSIVE CaseVariants(_, _)
CaseVariants(t, ascii) ==
    IF t = "" THEN {""}
    ELSE {c \o v : c \in CaseForms(Head(t), ascii),
                   v \in CaseVariants(Tail(t), ascii)}

\* C7 as stated: extract_keywords is case-insensitive: two texts that differ
\* only in the case of their letters yield the same keyword set, and
\* occurrences of one word in different cases produce a single keyword.
C7_CaseInsensitiveAnyLetter ==
    ExtractReturned =>
        LET raw == re_findall(text, 0, MinRun, TRUE)
        IN  /\ \A u \in CaseVariants(text, FALSE) :
                  extract_keywords(u) = keywords
            /\ \A i \in 1..Len(raw) :
                  Cardinality(keywords \cap CaseVariants(raw[i], TRUE)) <= 1

\* C7, amended: two texts that differ only in the case of their ASCII
\* letters yield the same keyword set, and occurrences of one word in
\* different cases produce a single keyword (as "Python PYTHON python"
\* yields {"python"}, "ss SS" yields {"ss"}).
C7_CaseInsensitive ==
    ExtractReturned =>
        LET raw == re_findall(text, 0, MinRun, TRUE)
        IN  /\ \A u \in CaseVariants(text, TRUE) :
                  extract_keywords(u) = keywords
            /\ \A i \in 1..Len(raw) :
                  Cardinality(keywords \cap CaseVariants(raw[i], TRUE)) <= 1
            /\ (text = "ss SS") => keywords = {"ss"}

\* one word written in two cases
C7_Witness ==
    /\ ExtractReturned
    /\ text = "Ss sS"
    /\ keywords = {"ss"}

\* C8: for every text, the set returned by extract_keywords holds no stop
\* word and holds every extracted token that is not a stop word ("as ss"
\* yields ss and not as); hence a token that is no stop word and occurs in
\* both the resume text and the JD text is in matched.
C8_StopWords ==
    /\ ExtractReturned =>
          /\ \A k \in keywords : k \notin stop_words
          /\ \A i \in 1..Len(words) :
                words[i] \notin stop_words => words[i] \in keywords
          /\ (text = "as ss") => ("ss" \in keywords /\ "as" \notin keywords)
    /\ (AnalyzeReturned /\ response.status = 200) =>
          \A w \in Range(extract_words(resume_text)) \cap
                   Range(extract_words(job_description)) :
              w \notin stop_words => w \in result.matched

\* a text with a stop word and another token
C8_Witness ==
    /\ ExtractReturned
    /\ text = "as ss"
    /\ words = <<"as", "ss">>
    /\ keywords = {"ss"}

\* The maximal runs of ASCII letters of s from index i on, of length >=
\* MinRun, in order of occurrence.  With delimited, only the runs that have
\* no word character (letter of any script, digit, underscore) right before
\* and right after them.
RECURSIVE LetterRuns(_, _, _)
LetterRuns(s, i, delimited) ==
    IF i > Len(s) THEN <<>>
    ELSE IF ~IsAsciiAlpha(At(s, i)) THEN LetterRuns(s, i + 1, delimited)
    ELSE LET j == CHOOSE e \in i..Len(s) :
                     /\ \A k \in i..e : IsAsciiAlpha(At(s, k))
                     /\ e = Len(s) \/ ~IsAsciiAlpha(At(s, e + 1))
             free == /\ i = 1 \/ ~IsWordChar(At(s, i - 1))
                     /\ j = Len(s) \/ ~IsWordChar(At(s, j + 1))
         IN  (IF j - i + 1 >= MinRun /\ (delimited => free)
              THEN <<SubSeq(s, i, j)>> ELSE <<>>)
             \o LetterRuns(s, j + 1, delimited)

\* C9 as stated: the tokenizer emits every maximal run of ASCII letters of
\* length >= 2 of the lower-cased text, every other character (digits,
\* underscores, punctuation, whitespace) being a discarded separator, so that
\* the letters of "python3" or "snake_case" still produce tokens.
C9_EveryMaximalRun ==
    ExtractReturned => words = LetterRuns(LowerText(text), 1, FALSE)

\* C9, amended: the tokenizer emits, in order, exactly the maximal runs of
\* ASCII letters of length >= 2 of the lower-cased text that are delimited on
\* both sides by an end of the text or a character that is no word character;
\* a run next to a digit, an underscore or a letter outside ASCII produces
\* no token.
C9_DelimitedRuns ==
    ExtractReturned => words = LetterRuns(LowerText(text), 1, TRUE)

\* a run of two letters followed by a digit: no token
C9_Witness ==
    /\ ExtractReturned
    /\ text = "sa3"
    /\ words = <<>>

AsciiLowercase ==
    {"a", "b", "c", "d", "e", "f", "g", "h", "i", "j", "k", "l", "m",
     "n", "o", "p", "q", "r", "s", "t", "u", "v", "w", "x", "y", "z"}

\* C10: every element of the set returned by extract_keywords, for any text,
\* is a string of lower-case ASCII letters a-z of length >= 2 (no digit, no
\* upper-case letter, no single letter).
C10_KeywordShape ==
    ExtractReturned =>
        \A k \in keywords :
            /\ Len(k) >= 2
            /\ \A i \in 1..Len(k) : At(k, i) \in AsciiLowercase

\* a text with upper-case letters, a digit and a single letter
C10_Witness ==
    /\ ExtractReturned
    /\ text = "A3 Sa"
    /\ keywords = {"sa"}

\* C11: extract_keywords never faults: for the empty string, and for any
\* text with no run of two or more (ASCII) letters, it returns the empty
\* set.
C11_NoTokens ==
    ExtractReturned =>
        /\ raised = "none"
        /\ (\A i \in 1..(Len(text) - 1) :
               ~(IsAsciiAlpha(At(text, i)) /\ IsAsciiAlpha(At(text, i + 1))))
           => (words = <<>> /\ keywords = {})
        /\ (text = "") => keywords = {}

\* single letters, a digit, an underscore and whitespace
C11_Witness ==
    /\ ExtractReturned
    /\ text = "A 3_s"
    /\ raised = "none"
    /\ keywords = {}

TechTerms == {"ai", "ml", "python", "java", "docker", "kubernetes", "aws"}

Blank(s) == \A i \in 1..Len(s) : At(s, i) \in {" ", "\n"}

\* the response is the validation error and carries no score
Rejected ==
    /\ response.status = 400
    /\ raised = "HTTPException"
    /\ "score" \notin DOMAIN response

\* C14: when the resume text or the job description given to analyze_text is
\* empty or whitespace only, and when the text analyze_resume took from the
\* PDF or its job description is, the handler answers HTTP 400 and returns no
\* AnalysisResult with a score.
C14_BlankIsRejected ==
    /\ (AnalyzeReturned /\ (Blank(resume_text) \/ Blank(job_description)))
          => Rejected
    /\ (ResumeReturned
          /\ (Blank(job_description) \/ (doc = "closed" /\ Blank(resume_text))))
          => Rejected

\* a PDF of two pages of whitespace, read without error
C14_Witness ==
    /\ ResumeReturned
    /\ upload.filename = "cv.pdf"
    /\ upload.pdf = [broken |-> "no", pages |-> <<" ", " ">>]
    /\ doc = "closed"
    /\ resume_text = " \n "
    /\ job_description = "ss"
    /\ response = [status |-> 400, detail |-> "Could not extract text from PDF"]

\* C15: when neither input of analyze_text is blank and the job description
\* yields no keyword, the handler returns a result, not an error: score 0,
\* empty matched_keywords and missing_keywords, total_jd_keywords 0, label
\* Poor Match.
C15_NoJdKeywords ==
    (AnalyzeReturned /\ ~Blank(resume_text) /\ ~Blank(job_description)
        /\ jd_keywords = {})
    => /\ raised = "none"
       /\ response = [status            |-> 200,
                      score             |-> 0,
                      score_label       |-> "Poor Match",
                      matched_keywords  |-> <<>>,
                      missing_keywords  |-> <<>>,
                      total_jd_keywords |-> 0,
                      total_matched     |-> 0]

\* a job description of one stop word against a resume with a keyword
C15_Witness ==
    /\ AnalyzeReturned
    /\ resume_text = "ss"
    /\ job_description = "as"
    /\ resume_keywords = {"ss"}
    /\ jd_keywords = {}
    /\ response.status = 200
    /\ response.score = 0
    /\ response.score_label = "Poor Match"

\* L is the first min(cap, |M|) elements of M in ascending order
FirstOf(L, M, cap) ==
    /\ Len(L) = IF Cardinality(M) < cap THEN Cardinality(M) ELSE cap
    /\ \A i \in 1..(Len(L) - 1) : StrLess(L[i], L[i + 1])
    /\ Range(L) \subseteq M
    /\ \A x \in M \ Range(L) : \A i \in 1..Len(L) : StrLess(L[i], x)

\* C16: in every AnalysisResult, of either handler, matched_keywords is the
\* first min(50, |matched|) elements of the matched set in ascending order
\* and missing_keywords the first min(30, |missing|) elements of the missing
\* set in ascending order.
C16_SortedThenCut ==
    (HandlerReturned /\ response.status = 200)
    => /\ FirstOf(response.matched_keywords, result.matched, MatchedCap)
       /\ FirstOf(response.missing_keywords, result.missing, MissingCap)

\* one keyword more than each list holds
C16_Witness ==
    /\ AnalyzeReturned
    /\ response.status = 200
    /\ Cardinality(result.matched) = MatchedCap + 1
    /\ Cardinality(result.missing) = MissingCap + 1
    /\ Len(response.matched_keywords) = MatchedCap
    /\ Len(response.missing_keywords) = MissingCap

\* C18: calculate_ats_score has no side effects: for any two keyword sets it
\* changes nothing outside its returned value and writes no output that
\* holds keyword data.  (The code prints jd_keywords at line 252.)
C18_NoOutput ==
    ScoreReturned
    => /\ printed = <<>>
       /\ engines = <<"None", "None">>
       /\ memo = NoMemo

\* the response to a request that is alone
Solo(r) ==
    IF r.kind = "text" THEN analyze_text(r.resume, r.jd)
    ELSE analyze_resume(r.resume, r.jd).response

\* C17: requests in flight together are independent: however the steps of
\* two or more requests interleave, each request's response is the response
\* it gets when it runs alone.
C17_Independent ==
    \A i \in DOMAIN requests :
        requests[i].pc = "responded" => requests[i].response = Solo(requests[i])

\* two requests with different inputs, each with steps inside the other's
\* handler, the second scored before the first
C17_Witness ==
    /\ requests[1].pc = "responded"
    /\ requests[2].pc = "responded"
    /\ requests[1].overlapped
    /\ requests[2].overlapped
    /\ requests[1].response.status = 200
    /\ requests[2].response.status = 200
    /\ requests[1].response.score # requests[2].response.score
    /\ printed = <<requests[2].jd_keywords, requests[1].jd_keywords>>

\* C19: mask_pii raises ValueError when text is None, empty or whitespace
\* only, and does so before it creates or calls the Presidio engines: no
\* library call is made and _analyzer and _anonymizer stay as they were.
C19_BlankBeforeEngines ==
    [][(pc = "idle" /\ pc' = "returned" /\ op' = "mask_pii"
          /\ (text' = None \/ Blank(text')))
       => /\ raised' = "ValueError"
          /\ calls' = <<>>
          /\ UNCHANGED engines]_vars

\* mask_pii(None) before any engine exists
C19_Witness ==
    /\ MaskReturned
    /\ text = None
    /\ raised = "ValueError"
    /\ error.message = "Input text cannot be empty"
    /\ calls = <<>>
    /\ engines = <<"None", "None">>

\* C20: sanitize_input returns a SanitizeResponse (status
\* PII_MASKED_SUCCESSFULLY, session_id the SHA-256 hex digest of the raw
\* resume_text) only when mask_pii succeeded; a ValueError from masking
\* becomes HTTP 400 with the error's message, every other exception HTTP 500
\* with the detail "Internal server error during sanitization".
C20_SanitizeMapping ==
    (SanitizeReturned /\ response.status # 422)
    => /\ response.status \in {200, 400, 500}
       /\ response.status = 200 <=> error.type = "none"
       /\ response.status = 200 =>
             /\ response.body.status = "PII_MASKED_SUCCESSFULLY"
             /\ response.body.session_id = "sha256(" \o resume_text \o ")"
             /\ response.body.sanitized_content = masked
             /\ calls[Len(calls)] = "anonymize"
       /\ error.type = "ValueError" =>
             response = [status |-> 400, detail |-> error.message]
       /\ error.type \notin {"none", "ValueError"} =>
             response = [status |-> 500,
                         detail |-> "Internal server error during sanitization"]

\* the analyzer raised an OSError inside mask_pii
C20_Witness ==
    /\ SanitizeReturned
    /\ resume_text = "Ann Lee 555"
    /\ error.type = "OSError"
    /\ calls = <<"AnalyzerEngine", "AnonymizerEngine", "analyze">>
    /\ response = [status |-> 500,
                   detail |-> "Internal server error during sanitization"]

\* C21: optimize_bullet_point raises ValueError for a blank bullet before
\* any LLM call; for a non-blank bullet it calls ollama.chat once, raises
\* ConnectionError if the service cannot be reached and RuntimeError if the
\* server reports that inference failed (ResponseError), each with the
\* library's exception as its cause, and otherwise returns the stripped
\* message content of the response.
C21_OptimizeContract ==
    OptimizeReturned =>
       /\ Blank(text) =>
             /\ raised = "ValueError"
             /\ calls = <<>>
             /\ posted = NoPost
       /\ ~Blank(text) =>
             /\ calls = <<"ollama.chat">>
             /\ raised \in {"none", "RuntimeError", "ConnectionError"}
             /\ error.cause = "ConnectionError" => raised = "ConnectionError"
             /\ error.cause = "ResponseError" => raised = "RuntimeError"
             /\ error.cause = "none" =>
                   /\ raised = "none"
                   /\ returned = strip(response.message.content)
             /\ raised = "none" => error.cause = "none"

\* the model reported an error for a bullet that is not blank
C21_Witness ==
    /\ OptimizeReturned
    /\ text = "ss"
    /\ error.cause = "ResponseError"
    /\ raised = "RuntimeError"
    /\ calls = <<"ollama.chat">>
    /\ returned = None

\* the file exists, opens as a PDF and every page of it can be read
Readable(file) ==
    file.exists /\ file.opens /\ file.unreadable \notin 1..Len(file.pages)

\* some span of some line of some block of some page has the color white
HasWhiteSpan(file) ==
    \E pg \in 1..Len(file.pages) :
       \E b \in 1..Len(file.pages[pg]) :
          /\ file.pages[pg][b].has_lines
          /\ \E l \in 1..Len(file.pages[pg][b].lines) :
                \E sp \in 1..Len(file.pages[pg][b].lines[l]) :
                   LET span == file.pages[pg][b].lines[l][sp]
                   IN  span.has_color /\ span.color = 16777215

\* C22: for a readable PDF, scan_for_hidden_text returns True if and only
\* if at least one text span on some page has color 16777215 (white), and
\* False otherwise; it agrees with scan_for_hidden_text_detailed returning a
\* non-empty list, whichever of the two was called.
C22_HiddenIffWhite ==
    /\ (ScanReturned /\ Readable(pdf_path)) =>
          /\ raised = "none"
          /\ returned \in {"True", "False"}
          /\ returned = "True" <=> HasWhiteSpan(pdf_path)
          /\ returned = "True" <=>
                scan_for_hidden_text_detailed(pdf_path).returned # <<>>
    /\ (DetailedReturned /\ Readable(pdf_path)) =>
          /\ raised = "none"
          /\ returned # <<>> <=> HasWhiteSpan(pdf_path)
          /\ returned # <<>> <=>
                scan_for_hidden_text(pdf_path).returned = "True"

\* a white span on the second page, behind an image block, after a span
\* that has no color
C22_Witness ==
    /\ ScanReturned
    /\ Readable(pdf_path)
    /\ Len(pdf_path.pages) = 2
    /\ ~HasWhiteSpan([pdf_path EXCEPT !.pages = <<pdf_path.pages[1]>>])
    /\ Len(pdf_path.pages[2]) = 2
    /\ ~pdf_path.pages[2][1].has_lines
    /\ Len(pdf_path.pages[2][2].lines) = 1
    /\ Len(pdf_path.pages[2][2].lines[1]) = 2
    /\ ~pdf_path.pages[2][2].lines[1][1].has_color
    /\ returned = "True"
    /\ doc = "closed"

\* C23: the request the Streamlit page sends to POST /analyze/text when
\* Analyze is pressed supplies the parameters the handler requires (the form
\* fields resume_text and job_description), so that a non-empty resume and
\* job description lead to a 200 AnalysisResult rather than a
\* request-validation error.
C23_UiRequestAccepted ==
    (UiReturned /\ posted # NoPost) =>
       /\ {"resume_text", "job_description"} \subseteq FormFields(posted)
       /\ (error.type = "none" /\ ~Blank(resume_text) /\ ~Blank(job_description))
             => response.status = 200

\* C24: in every AnalysisResult, of either handler, total_jd_keywords is the
\* size of the full JD keyword set and total_matched the size of the full
\* matched set before the cut to 50, so total_matched <= total_jd_keywords,
\* len(matched_keywords) <= total_matched and, when total_jd_keywords > 0,
\* score is 100 * total_matched / total_jd_keywords rounded to 2 decimals
\* (a hundredth no further than half a hundredth from the quotient).
C24_Totals ==
    (HandlerReturned /\ response.status = 200)
    => /\ response.total_jd_keywords = Cardinality(jd_keywords)
       /\ response.total_matched = Cardinality(resume_keywords \cap jd_keywords)
       /\ response.total_matched <= response.total_jd_keywords
       /\ Len(response.matched_keywords) <= response.total_matched
       /\ response.total_jd_keywords > 0 =>
             2 * Abs(response.score * response.total_jd_keywords
                     - 10000 * response.total_matched)
                <= response.total_jd_keywords

\* an upload with more matched keywords than matched_keywords holds
C24_Witness ==
    /\ ResumeReturned
    /\ response.status = 200
    /\ response.total_matched = MatchedCap + 1
    /\ Len(response.matched_keywords) = MatchedCap
    /\ response.total_jd_keywords > response.total_matched
    /\ response.score > 0

\* C25: after any sequence of mask_pii calls, including calls in which the
\* construction of an engine raised, _analyzer and _anonymizer are either
\* both unset or both set, so that no call finds a missing (None) engine.
\* (AnonymizerEngine() raising at line 21 leaves _analyzer set alone.)
C25_EnginesTogether ==
    /\ (_analyzer = None) <=> (_anonymizer = None)
    /\ (MaskReturned \/ SanitizeReturned) => error.type # "AttributeError"

\* C26: extract_text_from_pdf closes every document it opened on every exit
\* path: whenever fitz.open succeeded, the document is closed before the
\* function returns or raises, also when reading a page raises and the error
\* is converted to ValueError.  (doc.close() at line 38 is reached only
\* when every page was read.)
C26_DocClosed ==
    PdfTextReturned => doc \in {"none", "closed"}

====
